---- MODULE Spec2Model ----
(***************************************************************************)
(* A model of RecordFactory (src/src/r/R/RecordFactory.ts): the record     *)
(* tree, its queries and its mutating operations.                          *)
(*                                                                         *)
(* A RecordNode is a JavaScript object, so the model keeps a heap: a       *)
(* function from object references to nodes.  A record map holds           *)
(* references, and two entries holding the same reference are the same     *)
(* object.  Reference 0 is the root node the factory is constructed over.  *)
(*                                                                         *)
(* Optional values (undefined | x) are sequences: <<>> is undefined and    *)
(* <<x>> is x.  A name is a non-empty sequence of numbers (its base        *)
(* followed by the suffixes the unique-name utility appended) or <<>>.     *)
(* An order is <<>> or the fraction <<numerator, denominator>>.            *)
(* A property value is <<0, x, 0>> for the number x.                       *)
(***************************************************************************)
EXTENDS Integers, Sequences, FiniteSets, TLC

VARIABLES heap, nextId, clipboard, log

vars == <<heap, nextId, clipboard, log>>

(***************************************************************************)
(* Bounds of the model.                                                    *)
(***************************************************************************)
MaxSteps == 2

MaxNameSteps == 3

(***************************************************************************)
(* Optional values.                                                        *)
(***************************************************************************)
None == <<>>

Some(x) == <<x>>

IsSome(o) == o # <<>>

Num(x) == <<0, x, 0>>

Root == 0

(***************************************************************************)
(* The type registry (RecordTypes.ts).                                     *)
(***************************************************************************)
RT == {"project", "scene", "element", "rule"}

isRecordType(type) == type \in RT

rtChildren == [t \in RT |->
    CASE t = "project" -> {"scene"}
      [] t = "scene"   -> {"element", "rule"}
      [] t = "element" -> {"element"}
      [] OTHER         -> {}]

isTypeChildOf(parentType, type) == type \in rtChildren[parentType]

\* recordTypeDefinitions[type].defaultName: <<>> for a type that has no name
defaultName(type) ==
    CASE type = "scene"   -> <<7>>
      [] type = "element" -> <<8>>
      [] OTHER            -> None

\* the order in which the keys of a node's "records" object are visited
rtKeyOrder == <<"scene", "element", "rule">>

(***************************************************************************)
(* Numbers: orders are exact fractions <<n, d>> with d > 0.                *)
(***************************************************************************)
RECURSIVE gcd(_, _)
gcd(a, b) == IF b = 0 THEN a ELSE gcd(b, a % b)

Abs(x) == IF x < 0 THEN 0 - x ELSE x

Frac(n, d) ==
    LET g == gcd(Abs(n), d)
    IN  IF n = 0 THEN <<0, 1>> ELSE <<n \div g, d \div g>>

Int2Ord(n) == <<n, 1>>

OrdLess(a, b) == a[1] * b[2] < b[1] * a[2]

OrdAdd(a, b) == Frac(a[1] * b[2] + b[1] * a[2], a[2] * b[2])

OrdSub(a, b) == Frac(a[1] * b[2] - b[1] * a[2], a[2] * b[2])

\* a / k * s for positive integers k and s
OrdScale(a, k, s) == Frac(a[1] * s, a[2] * k)

\* x ?? 0
OrZero(o) == IF IsSome(o) THEN o ELSE Int2Ord(0)

(***************************************************************************)
(* Sequences and finite functions.                                         *)
(***************************************************************************)
SetMin(S) == CHOOSE x \in S : \A y \in S : x <= y

SetMax(S) == CHOOSE x \in S : \A y \in S : y <= x

\* the elements of a set of numbers in ascending order: the order in which
\* JavaScript visits the integer keys of an object
RECURSIVE Ascending(_)
Ascending(S) ==
    IF S = {} THEN <<>>
    ELSE LET m == SetMin(S) IN <<m>> \o Ascending(S \ {m})

Range(s) == {s[i] : i \in DOMAIN s}

EmptyMap == [x \in {} |-> 0]

\* Object.assign(f, g)
Assign(f, g) ==
    [x \in DOMAIN f \cup DOMAIN g |-> IF x \in DOMAIN g THEN g[x] ELSE f[x]]

\* delete f[k]
Delete(f, k) == [x \in DOMAIN f \ {k} |-> f[x]]

Reverse(s) == [i \in 1..Len(s) |-> s[Len(s) + 1 - i]]

\* const x = v; ...: the value is computed, once, before what follows it
With(v, F(_)) == CHOOSE r \in {F(x) : x \in {v}} : TRUE

IndexOf(s, x) ==
    IF x \in Range(s) THEN SetMin({i \in DOMAIN s : s[i] = x}) - 1 ELSE 0 - 1

(***************************************************************************)
(* Strings.  An address is a sequence of tokens: the separators "|", ":",  *)
(* "!" and ">", and the words between them (type names, property names,    *)
(* decimal numerals).  `${n}` is ToString(n).                              *)
(***************************************************************************)
MaxNumeral == 9

\* Number(s) for one word; <<>> stands for NaN
ToNumber(w) ==
    IF \E n \in 0..MaxNumeral : ToString(n) = w
    THEN Some(CHOOSE n \in 0..MaxNumeral : ToString(n) = w)
    ELSE None

\* s.replace(/<sep>.*/, ""): the tokens before the first <sep>
RECURSIVE Before(_, _)
Before(s, sep) ==
    IF s = <<>> \/ Head(s) = sep THEN <<>>
    ELSE <<Head(s)>> \o Before(Tail(s), sep)

\* the tokens after the first <sep>; <<>> when there is none
RECURSIVE After(_, _)
After(s, sep) ==
    IF s = <<>> THEN <<>>
    ELSE IF Head(s) = sep THEN Tail(s) ELSE After(Tail(s), sep)

\* s.split(sep): always at least one piece
RECURSIVE Split(_, _)
Split(s, sep) ==
    IF sep \in Range(s)
    THEN <<Before(s, sep)>> \o Split(After(s, sep), sep)
    ELSE <<s>>

\* an idOrAddress: a number or an address string
IdRef(n) == [isNum |-> TRUE, num |-> n, str |-> <<>>]

AddrRef(s) == [isNum |-> FALSE, num |-> 0, str |-> s]

(***************************************************************************)
(* Nodes and the heap.                                                     *)
(***************************************************************************)
Node(type, name, order, props, records) ==
    [type |-> type, name |-> name, order |-> order, props |-> props,
     records |-> records]

NewRef(h) == SetMax(DOMAIN h) + 1

SetOrder(h, r, o) == [h EXCEPT ![r].order = o]

SetName(h, r, n) == [h EXCEPT ![r].name = n]

\* this._json.records[type] = m
SetRecordMap(h, r, type, m) ==
    [h EXCEPT ![r].records = (type :> m) @@ h[r].records]

(***************************************************************************)
(* Queries.                                                                *)
(***************************************************************************)
getProps(h, r) == DOMAIN h[r].props

getRecordTypes(h, r) ==
    SelectSeq(rtKeyOrder, LAMBDA t : t \in DOMAIN h[r].records)

getRecordMapOfType(h, r, type) ==
    IF type \in DOMAIN h[r].records THEN h[r].records[type] ELSE EmptyMap

RECURSIVE AssignTypes(_, _, _, _)
AssignTypes(h, r, types, recordMap) ==
    IF types = <<>> THEN recordMap
    ELSE AssignTypes(h, r, Tail(types),
                     Assign(recordMap, getRecordMapOfType(h, r, Head(types))))

\* a new object every time: the merge of the record maps of all types
getRecordMap(h, r) == AssignTypes(h, r, getRecordTypes(h, r), EmptyMap)

RECURSIVE getDeepRecordMap(_, _)
RECURSIVE AssignDeep(_, _, _, _)
AssignDeep(h, children, ids, recordMap) ==
    IF ids = <<>> THEN recordMap
    ELSE AssignDeep(h, children, Tail(ids),
                    Assign(recordMap, getDeepRecordMap(h, children[Head(ids)])))

getDeepRecordMap(h, r) ==
    With(getRecordMap(h, r), LAMBDA children :
        AssignDeep(h, children, Ascending(DOMAIN children), children))

getRecordOfType(h, r, type, id) ==
    With(getRecordMapOfType(h, r, type), LAMBDA m :
        IF id \in DOMAIN m THEN Some(m[id]) ELSE None)

getRecord(h, r, id) ==
    With(getRecordMap(h, r), LAMBDA m :
        IF id \in DOMAIN m THEN Some(m[id]) ELSE None)

(***************************************************************************)
(* Sorted records.  Operations that change nodes return the new heap.      *)
(***************************************************************************)
\* the first loop of ensureOrderKeyPresentOfType: it stops at the first
\* record without an order
RECURSIVE ScanMaxOrder(_, _, _)
ScanMaxOrder(h, refs, maxOrder) ==
    IF refs = <<>> THEN [undefinedFound |-> FALSE, maxOrder |-> maxOrder]
    ELSE IF h[Head(refs)].order = None
         THEN [undefinedFound |-> TRUE, maxOrder |-> maxOrder]
         ELSE ScanMaxOrder(h, Tail(refs),
                           IF OrdLess(maxOrder, h[Head(refs)].order)
                           THEN h[Head(refs)].order ELSE maxOrder)

\* a second loop that gives every record a new order
RECURSIVE FillOrders_Renumber(_, _, _)
FillOrders_Renumber(h, refs, maxOrder) ==
    IF refs = <<>> THEN h
    ELSE FillOrders_Renumber(
             SetOrder(h, Head(refs), OrdAdd(maxOrder, Int2Ord(1))),
             Tail(refs), OrdAdd(maxOrder, Int2Ord(1)))

\* the second loop of ensureOrderKeyPresentOfType
RECURSIVE FillOrders(_, _, _)
FillOrders(h, refs, maxOrder) ==
    IF refs = <<>> THEN h
    ELSE IF h[Head(refs)].order = None
         THEN FillOrders(SetOrder(h, Head(refs), OrdAdd(maxOrder, Int2Ord(1))),
                         Tail(refs), OrdAdd(maxOrder, Int2Ord(1)))
         ELSE FillOrders(h, Tail(refs), maxOrder)

\* Object.values of a record map, in the order of its keys
Values(m) ==
    With(Ascending(DOMAIN m), LAMBDA ids : [i \in DOMAIN ids |-> m[ids[i]]])

\* Object.entries of a record map: <<id, ref>> in the order of its keys
Entries(m) ==
    With(Ascending(DOMAIN m), LAMBDA ids :
        [i \in DOMAIN ids |-> <<ids[i], m[ids[i]]>>])

\* ensureOrderKeyPresentOfType that numbers all the records 1, 2, ...
ensureOrderKeyPresentOfType_Renumber(h, r, type) ==
    FillOrders_Renumber(h, Values(getRecordMapOfType(h, r, type)), Int2Ord(0))

ensureOrderKeyPresentOfType(h, r, type) ==
    With(Values(getRecordMapOfType(h, r, type)), LAMBDA valuesArray :
    With(ScanMaxOrder(h, valuesArray, Int2Ord(0)), LAMBDA scan :
        IF ~scan.undefinedFound THEN h
        ELSE FillOrders(h, valuesArray, scan.maxOrder)))

\* Array.prototype.sort with the comparator a.order - b.order: a stable sort
RECURSIVE InsertSorted(_, _, _)
InsertSorted(h, sorted, e) ==
    IF sorted = <<>> THEN <<e>>
    ELSE IF OrdLess(h[e[2]].order, h[Head(sorted)[2]].order)
         THEN <<e>> \o sorted
         ELSE <<Head(sorted)>> \o InsertSorted(h, Tail(sorted), e)

RECURSIVE SortEntries(_, _, _)
SortEntries(h, entries, sorted) ==
    IF entries = <<>> THEN sorted
    ELSE SortEntries(h, Tail(entries), InsertSorted(h, sorted, Head(entries)))

\* getSortedRecordEntriesOfType without the sort: the entries in key order
getSortedRecordEntriesOfType_Unsorted(h, r, type) ==
    With(ensureOrderKeyPresentOfType(h, r, type), LAMBDA h1 :
        [h |-> h1, entries |-> Entries(getRecordMapOfType(h1, r, type))])

\* [h: the heap after the order backfill, entries: <<id, ref>> in order]
getSortedRecordEntriesOfType(h, r, type) ==
    With(ensureOrderKeyPresentOfType(h, r, type), LAMBDA h1 :
        [h |-> h1,
         entries |-> SortEntries(h1, Entries(getRecordMapOfType(h1, r, type)),
                                 <<>>)])

getSortedRecordIdsOfType(h, r, type) ==
    With(getSortedRecordEntriesOfType(h, r, type), LAMBDA s :
        [h |-> s.h, ids |-> [i \in DOMAIN s.entries |-> s.entries[i][1]]])

getSortedRecordsOfType(h, r, type) ==
    With(getSortedRecordEntriesOfType(h, r, type), LAMBDA s :
        [h |-> s.h, records |-> [i \in DOMAIN s.entries |-> s.entries[i][2]]])

(***************************************************************************)
(* Addresses.                                                              *)
(***************************************************************************)
\* id, type, selfAddr, property and index; the last four are optional
\* getAddress that leaves out the selfAddr prefix
getAddress_NoPrefix(h, self, id, type, selfAddr, property, index) ==
    With(IF IsSome(type) THEN getRecordOfType(h, self, type[1], id)
         ELSE getRecord(h, self, id), LAMBDA record :
    IF record = None THEN <<>> ELSE
    With(<<IF IsSome(type) THEN type[1] ELSE h[record[1]].type,
           ":", ToString(id)>>, LAMBDA address :
        IF IsSome(property)
        THEN address \o <<"!">>
               \o (IF IsSome(index)
                   THEN <<property[1], ">", ToString(index[1])>>
                   ELSE <<property[1]>>)
        ELSE address))

getAddress(h, self, id, type, selfAddr, property, index) ==
    With(IF IsSome(type) THEN getRecordOfType(h, self, type[1], id)
         ELSE getRecord(h, self, id), LAMBDA record :
    IF record = None THEN <<>> ELSE
    With(<<IF IsSome(type) THEN type[1] ELSE h[record[1]].type,
           ":", ToString(id)>>, LAMBDA childPartialAddress :
    With(IF selfAddr # <<>>
         THEN selfAddr \o <<"|">> \o childPartialAddress
         ELSE childPartialAddress, LAMBDA address :
        IF IsSome(property)
        THEN address \o <<"!">>
               \o (IF IsSome(index)
                   THEN <<property[1], ">", ToString(index[1])>>
                   ELSE <<property[1]>>)
        ELSE address)))

RECURSIVE getRecordAndParentWithId(_, _, _)
RECURSIVE FindWithId(_, _, _, _, _)
FindWithId(h, self, recordMap, keys, id) ==
    IF keys = <<>> THEN None
    ELSE IF id = Head(keys)
         THEN Some([p |-> self, r |-> recordMap[id], id |-> id])
         ELSE With(getRecordAndParentWithId(h, recordMap[Head(keys)], id),
                   LAMBDA subRecordRAndP :
                  IF subRecordRAndP # None THEN subRecordRAndP
                  ELSE FindWithId(h, self, recordMap, Tail(keys), id))

getRecordAndParentWithId(h, self, id) ==
    With(getRecordMap(h, self), LAMBDA recordMap :
        FindWithId(h, self, recordMap, Ascending(DOMAIN recordMap), id))

\* const [type, id] = segment.split(":"): the type word and Number(id)
SegmentType(seg) ==
    With(Split(seg, ":"), LAMBDA parts :
        IF Len(parts[1]) = 1 THEN Some(parts[1][1]) ELSE None)

SegmentId(seg) ==
    With(Split(seg, ":"), LAMBDA parts :
        IF Len(parts) >= 2 /\ Len(parts[2]) = 1 THEN ToNumber(parts[2][1])
        ELSE None)

RECURSIVE WalkAddress(_, _, _, _)
WalkAddress(h, childR, childId, segs) ==
    IF segs = <<>> THEN None
    ELSE With(childR, LAMBDA parentR :
         With(SegmentType(Head(segs)), LAMBDA type :
         With(SegmentId(Head(segs)), LAMBDA id :
         With(IF IsSome(type) /\ IsSome(id)
              THEN getRecordOfType(h, parentR, type[1], id[1])
              ELSE None, LAMBDA newChild :
             IF newChild = None THEN None
             ELSE IF Len(segs) = 1
                  THEN Some([id |-> id[1], r |-> newChild[1], p |-> parentR])
                  ELSE WalkAddress(h, newChild[1], id[1], Tail(segs))))))

\* getRecordAndParentWithAddress that stops after the first segment
getRecordAndParentWithAddress_FirstSegment(h, self, addr) ==
    With(Split(Before(addr, "!"), "|"), LAMBDA recordStringArray :
        IF Len(recordStringArray) = 0 \/ DOMAIN h[self].records = {}
        THEN None
        ELSE WalkAddress(h, self, 0, <<recordStringArray[1]>>))

getRecordAndParentWithAddress(h, self, addr) ==
    With(Split(Before(addr, "!"), "|"), LAMBDA recordStringArray :
        IF Len(recordStringArray) = 0 \/ DOMAIN h[self].records = {}
        THEN None
        ELSE WalkAddress(h, self, 0, recordStringArray))

getRecordAndParent(h, self, idOrAddress) ==
    IF idOrAddress.isNum
    THEN getRecordAndParentWithId(h, self, idOrAddress.num)
    ELSE getRecordAndParentWithAddress(h, self, idOrAddress.str)

getDeepRecord(h, self, idOrAddress) ==
    IF idOrAddress.isNum
    THEN With(getDeepRecordMap(h, self), LAMBDA m :
             IF idOrAddress.num \in DOMAIN m THEN Some(m[idOrAddress.num])
             ELSE None)
    ELSE With(getRecordAndParentWithAddress(h, self, idOrAddress.str),
              LAMBDA rAndP :
             IF rAndP = None THEN None ELSE Some(rAndP[1].r))

(***************************************************************************)
(* Ids.  generateIdV2() returns nextId and increments it.                  *)
(***************************************************************************)
\* the property loop of changeDeepRecordId
RewriteProps(h, self, id, newId) ==
    [h EXCEPT ![self].props =
        [prop \in DOMAIN h[self].props |->
            IF h[self].props[prop] = Num(id) THEN Num(newId)
            ELSE h[self].props[prop]]]

\* recordMap[newId] = recordMap[id]; delete recordMap[id]
Relocate(recordMap, id, newId) ==
    IF newId = id THEN Delete(recordMap, id)
    ELSE Delete((newId :> recordMap[id]) @@ recordMap, id)

\* changeDeepRecordId with newId given.  recordMap is the object that
\* getRecordMap() returned; the loop runs over the entries it had on entry
RECURSIVE ChangeId(_, _, _, _)
RECURSIVE ChangeIdLoop(_, _, _, _, _, _)
ChangeIdLoop(h, recordMap, entries, keys, id, newId) ==
    IF keys = <<>> THEN [h |-> h, recordMap |-> recordMap]
    ELSE With(Head(keys), LAMBDA key :
             ChangeIdLoop(ChangeId(h, entries[key], id, newId),
                          IF id = key /\ id \in DOMAIN recordMap
                          THEN Relocate(recordMap, id, newId)
                          ELSE recordMap,
                          entries, Tail(keys), id, newId))

\* changeDeepRecordId that does not go down into the sub-records
ChangeId_NoDescent(h, self, id, newId) == RewriteProps(h, self, id, newId)

ChangeId(h, self, id, newId) ==
    With(RewriteProps(h, self, id, newId), LAMBDA h1 :
    With(getRecordMap(h1, self), LAMBDA recordMap :
        ChangeIdLoop(h1, recordMap, recordMap, Ascending(DOMAIN recordMap),
                     id, newId).h))

\* newId is optional; [h, nid: the next id to generate, ret: the new id]
changeDeepRecordId(h, nid, self, id, newId) ==
    With(IF IsSome(newId) THEN newId[1] ELSE nid, LAMBDA new :
        [h |-> ChangeId(h, self, id, new),
         nid |-> IF IsSome(newId) THEN nid ELSE nid + 1,
         ret |-> new])

RECURSIVE CycleLoop(_, _, _, _)
CycleLoop(h, nid, self, keys) ==
    IF keys = <<>> THEN [h |-> h, nid |-> nid]
    ELSE With(changeDeepRecordId(h, nid, self, Head(keys), None), LAMBDA c :
             CycleLoop(c.h, c.nid, self, Tail(keys)))

cycleAllSubRecordIds(h, nid, self) ==
    With(getDeepRecordMap(h, self), LAMBDA allRecordsMap :
        CycleLoop(h, nid, self, Ascending(DOMAIN allRecordsMap)))

(***************************************************************************)
(* Orders of new records.                                                  *)
(***************************************************************************)
\* getNewOrders that takes every position as the end
getNewOrders_AtEnd(h, sortedRecords, newRecordsCount, position) ==
    [threw |-> FALSE,
     order |-> [i \in 1..newRecordsCount |->
                   OrdAdd(IF Len(sortedRecords) > 0
                          THEN OrZero(h[sortedRecords[Len(sortedRecords)]].order)
                          ELSE Int2Ord(0), Int2Ord(i))]]

\* getNewOrders that gives every new record of an interior gap the midpoint
getNewOrders_Midpoint(h, sortedRecords, newRecordsCount, position) ==
    LET n == Len(sortedRecords)
        edge == IF n > 0 THEN OrZero(h[sortedRecords[n]].order) ELSE Int2Ord(0)
    IN  IF n = 0
        THEN [threw |-> FALSE,
              order |-> [i \in 1..newRecordsCount |-> Int2Ord(i)]]
        ELSE IF position = Some(0)
        THEN [threw |-> FALSE,
              order |-> [i \in 1..newRecordsCount |->
                            OrdSub(OrZero(h[sortedRecords[1]].order),
                                   Int2Ord(i))]]
        ELSE IF position = Some(n) \/ position = None
        THEN [threw |-> FALSE,
              order |-> [i \in 1..newRecordsCount |-> OrdAdd(edge, Int2Ord(i))]]
        ELSE IF position[1] < 1 \/ position[1] > n - 1
        THEN [threw |-> TRUE, order |-> <<>>]
        ELSE [threw |-> FALSE,
              order |-> [i \in 1..newRecordsCount |->
                            OrdScale(OrdAdd(
                                OrZero(h[sortedRecords[position[1]]].order),
                                OrZero(h[sortedRecords[position[1] + 1]].order)),
                                2, 1)]]

\* sortedRecords: references; position: optional.
\* [threw: reading .order of undefined, order: the new orders]
getNewOrders(h, sortedRecords, newRecordsCount, position) ==
    LET n == Len(sortedRecords)
        minOrder == IF n > 0 THEN OrZero(h[sortedRecords[1]].order)
                    ELSE Int2Ord(0)
        maxOrder == IF n > 0 THEN OrZero(h[sortedRecords[n]].order)
                    ELSE Int2Ord(0)
        pos == position[1]
        prevOrder == OrZero(h[sortedRecords[pos]].order)
        nextOrder == OrZero(h[sortedRecords[pos + 1]].order)
    IN  IF n = 0
        THEN [threw |-> FALSE,
              order |-> [i \in 1..newRecordsCount |-> Int2Ord(i)]]
        ELSE IF position = Some(0)
        THEN [threw |-> FALSE,
              order |-> [i \in 1..newRecordsCount |->
                            OrdSub(minOrder, Int2Ord(i))]]
        ELSE IF position = Some(n) \/ position = None
        THEN [threw |-> FALSE,
              order |-> [i \in 1..newRecordsCount |->
                            OrdAdd(maxOrder, Int2Ord(i))]]
        ELSE IF pos < 1 \/ pos > n - 1
        THEN [threw |-> TRUE, order |-> <<>>]
        ELSE [threw |-> FALSE,
              order |-> [i \in 1..newRecordsCount |->
                            OrdAdd(prevOrder,
                                   OrdScale(OrdSub(nextOrder, prevOrder),
                                            newRecordsCount + 1, i))]]

\* initializeRecordMap without the check of the parent's type
initializeRecordMap_NoChildCheck(h, self, type) ==
    IF ~isRecordType(type) THEN [ok |-> FALSE, h |-> h]
    ELSE IF type \notin DOMAIN h[self].records
    THEN [ok |-> TRUE, h |-> SetRecordMap(h, self, type, EmptyMap)]
    ELSE [ok |-> TRUE, h |-> h]

\* [ok: the boolean returned, h]
initializeRecordMap(h, self, type) ==
    IF ~isRecordType(type) THEN [ok |-> FALSE, h |-> h]
    ELSE IF type \notin DOMAIN h[self].records
    THEN IF ~isTypeChildOf(h[self].type, type) THEN [ok |-> FALSE, h |-> h]
         ELSE [ok |-> TRUE, h |-> SetRecordMap(h, self, type, EmptyMap)]
    ELSE [ok |-> TRUE, h |-> h]

(***************************************************************************)
(* Names.                                                                  *)
(***************************************************************************)
\* stringUtils.getSafeAndUniqueRecordName: the name with the first numeric
\* suffix that makes it differ from every existing name
getSafeAndUniqueRecordName(name, existingNames) ==
    LET i == SetMin({k \in 1..(Len(existingNames) + 1) :
                        Append(name, k) \notin Range(existingNames)})
    IN  Append(name, i)

\* changeRecordName without the look at the siblings' names
changeRecordName_NoDedupe(h, self, type, id, newName) ==
    With(getRecordOfType(h, self, type, id), LAMBDA record :
        IF record = None THEN [h |-> h, ret |-> None]
        ELSE IF defaultName(type) = None THEN [h |-> h, ret |-> None]
        ELSE [h |-> SetName(h, record[1],
                            IF newName = None THEN defaultName(type)
                            ELSE newName),
              ret |-> record])

\* newName is optional; [h, ret: the record or undefined]
changeRecordName(h, self, type, id, newName) ==
    With(getRecordOfType(h, self, type, id), LAMBDA record :
    IF record = None THEN [h |-> h, ret |-> None]
    ELSE IF defaultName(type) = None THEN [h |-> h, ret |-> None]
    ELSE
    With(IF newName = None THEN defaultName(type) ELSE newName, LAMBDA name :
    With(SelectSeq(Entries(getRecordMapOfType(h, self, type)),
                   LAMBDA e : e[1] # id), LAMBDA others :
    With(SelectSeq([i \in DOMAIN others |-> h[others[i][2]].name],
                   LAMBDA x : x # None), LAMBDA existingNames :
        IF name \in Range(existingNames)
        THEN [h |-> SetName(h, record[1],
                            getSafeAndUniqueRecordName(name, existingNames)),
              ret |-> record]
        ELSE [h |-> SetName(h, record[1], name), ret |-> record]))))

(***************************************************************************)
(* Adding, duplicating and deleting records.                               *)
(***************************************************************************)
\* addRecord on the node self, parentIdOrAddress already resolved.
\* record: a reference; position and id: optional.
\* [h, nid, ret: the id or undefined, threw]
AddRecordHere(h, nid, self, record, position, id, dontCycleSubRecordIds) ==
    With(h[record].type, LAMBDA type :
    With(initializeRecordMap(h, self, type), LAMBDA init :
    IF ~init.ok THEN [h |-> h, nid |-> nid, ret |-> None, threw |-> FALSE]
    ELSE
    With(getSortedRecordsOfType(init.h, self, type), LAMBDA sorted :
    With(getNewOrders(sorted.h, sorted.records, 1, position), LAMBDA orders :
    IF orders.threw
    THEN [h |-> sorted.h, nid |-> nid, ret |-> None, threw |-> TRUE]
    ELSE
    With(SetOrder(sorted.h, record, orders.order[1]), LAMBDA h1 :
    With(IF dontCycleSubRecordIds THEN [h |-> h1, nid |-> nid]
         ELSE cycleAllSubRecordIds(h1, nid, record), LAMBDA cyc :
    With(IF IsSome(id) THEN id[1] ELSE cyc.nid, LAMBDA newId :
    With(SetRecordMap(cyc.h, self, type,
             (newId :> record) @@ getRecordMapOfType(cyc.h, self, type)),
         LAMBDA h2 :
    With(changeRecordName(h2, self, type, newId, h2[record].name),
         LAMBDA named :
        [h |-> named.h,
         nid |-> IF IsSome(id) THEN cyc.nid ELSE cyc.nid + 1,
         ret |-> Some(newId),
         threw |-> FALSE])))))))))

\* parentIdOrAddress is optional
addRecord(h, nid, self, record, position, id, dontCycleSubRecordIds, parentIdOrAddress) ==
    IF IsSome(parentIdOrAddress)
    THEN With(getDeepRecord(h, self, parentIdOrAddress[1]),
              LAMBDA parentRecord :
             IF parentRecord = None
             THEN [h |-> h, nid |-> nid, ret |-> None, threw |-> FALSE]
             ELSE AddRecordHere(h, nid, parentRecord[1], record, position,
                                id, dontCycleSubRecordIds))
    ELSE AddRecordHere(h, nid, self, record, position, id,
                       dontCycleSubRecordIds)

\* RecordNode.createRecord(type): a record of the type with nothing set.
\* [h, ref]
createRecord(h, type) ==
    With(NewRef(h), LAMBDA ref :
        [h |-> (ref :> Node(type, None, None, EmptyMap, EmptyMap)) @@ h,
         ref |-> ref])

addBlankRecord(h, nid, self, type, position) ==
    With(createRecord(h, type), LAMBDA c :
        addRecord(c.h, nid, self, c.ref, position, None, FALSE, None))

\* jsUtils.deepClone: a copy of the node and of everything below it.
\* [h, ref: the copy]
RECURSIVE deepClone(_, _)
RECURSIVE CloneEntries(_, _, _)
CloneEntries(h, entries, records) ==
    IF entries = <<>> THEN [h |-> h, records |-> records]
    ELSE With(Head(entries), LAMBDA e :
         With(deepClone(h, e[3]), LAMBDA c :
             CloneEntries(c.h, Tail(entries),
                 [records EXCEPT ![e[1]] = (e[2] :> c.ref) @@ @])))

RECURSIVE EntriesOfTypes(_, _, _)
EntriesOfTypes(h, r, types) ==
    IF types = <<>> THEN <<>>
    ELSE With(Entries(getRecordMapOfType(h, r, Head(types))), LAMBDA es :
             [i \in DOMAIN es |-> <<Head(types), es[i][1], es[i][2]>>]
             \o EntriesOfTypes(h, r, Tail(types)))

deepClone(h, r) ==
    With(CloneEntries(h, EntriesOfTypes(h, r, getRecordTypes(h, r)),
                      [t \in DOMAIN h[r].records |-> EmptyMap]), LAMBDA c :
    With(NewRef(c.h), LAMBDA ref :
        [h |-> (ref :> [h[r] EXCEPT !.records = c.records]) @@ c.h,
         ref |-> ref]))

\* [h, nid, ret: the id of the copy or undefined, threw]
duplicateRecord(h, nid, self, type, id) ==
    With(getRecordOfType(h, self, type, id), LAMBDA orig :
    IF orig = None THEN [h |-> h, nid |-> nid, ret |-> None, threw |-> FALSE]
    ELSE
    With(deepClone(h, orig[1]), LAMBDA cloned :
    With(getSortedRecordIdsOfType(cloned.h, self, h[orig[1]].type),
         LAMBDA sorted :
    With(IndexOf(sorted.ids, id), LAMBDA origPositionIndex :
        addRecord(sorted.h, nid, self, cloned.ref,
                  Some(origPositionIndex + 1), None, FALSE, None)))))

duplicateDeepRecord(h, nid, self, idOrAddress) ==
    With(getRecordAndParent(h, self, idOrAddress), LAMBDA rAndP :
        IF rAndP = None
        THEN [h |-> h, nid |-> nid, ret |-> None, threw |-> FALSE]
        ELSE duplicateRecord(h, nid, rAndP[1].p, h[rAndP[1].r].type,
                             rAndP[1].id))

\* [h, ret: <<id, record>> or undefined]
deleteRecord(h, self, type, id) ==
    With(getRecordOfType(h, self, type, id), LAMBDA recordToDelete :
        IF recordToDelete = None THEN [h |-> h, ret |-> None]
        ELSE [h |-> SetRecordMap(h, self, type,
                        Delete(getRecordMapOfType(h, self, type), id)),
              ret |-> <<id, recordToDelete[1]>>])

\* deleteDeepRecord that empties the record map the target is in
deleteDeepRecord_WholeMap(h, self, idOrAddress) ==
    With(getRecordAndParent(h, self, idOrAddress), LAMBDA rAndP :
    IF rAndP = None THEN [h |-> h, ret |-> None]
    ELSE [h |-> SetRecordMap(h, rAndP[1].p, h[rAndP[1].r].type, EmptyMap),
          ret |-> <<rAndP[1].id, rAndP[1].r>>])

deleteDeepRecord(h, self, idOrAddress) ==
    With(getRecordAndParent(h, self, idOrAddress), LAMBDA rAndP :
    IF rAndP = None THEN [h |-> h, ret |-> None]
    ELSE
    With(h[rAndP[1].r].type, LAMBDA type :
        IF type \notin DOMAIN h[rAndP[1].p].records
        THEN [h |-> h, ret |-> <<rAndP[1].id, rAndP[1].r>>]
        ELSE [h |-> SetRecordMap(h, rAndP[1].p, type,
                        Delete(getRecordMapOfType(h, rAndP[1].p, type),
                               rAndP[1].id)),
              ret |-> <<rAndP[1].id, rAndP[1].r>>]))

changeDeepRecordName(h, self, idOrAddress, newName) ==
    With(getRecordAndParent(h, self, idOrAddress), LAMBDA rAndP :
        IF rAndP = None THEN [h |-> h, ret |-> None]
        ELSE changeRecordName(h, rAndP[1].p, h[rAndP[1].r].type, rAndP[1].id,
                              newName))

(***************************************************************************)
(* The structure below a node.  A structure in which a node is its own     *)
(* descendant is one no traversal of which ends; the loops of move, copy   *)
(* and paste stop when they have made one, and the calls that make one     *)
(* are not among the calls of the model.                                   *)
(***************************************************************************)
\* the record-map entries of node r: <<r, type, id, child>>
EntriesOf(h, r) ==
    UNION {{<<r, t, id, h[r].records[t][id]>> : id \in DOMAIN h[r].records[t]}
           : t \in DOMAIN h[r].records}

ChildRefs(h, r) == {e[4] : e \in EntriesOf(h, r)}

RECURSIVE Peel(_, _)
Peel(h, S) ==
    With({r \in S : ChildRefs(h, r) \cap S = {}}, LAMBDA leaves :
        IF leaves = {} THEN S ELSE Peel(h, S \ leaves))

\* no node is its own descendant
Acyclic(h) == Peel(h, DOMAIN h) = {}

\* the nodes at or below r
RECURSIVE Below(_, _)
Below(h, r) == {r} \cup UNION {Below(h, c) : c \in ChildRefs(h, r)}

\* every record-map entry at any depth below r
DeepEntries(h, r) == UNION {EntriesOf(h, x) : x \in Below(h, r)}

(***************************************************************************)
(* Bread crumbs: <<id, record>> per level, the record a reference in an    *)
(* optional; the whole list in an optional.                                *)
(***************************************************************************)
RECURSIVE getBreadCrumbsWithId(_, _, _)
RECURSIVE CrumbsWithId(_, _, _, _)
\* the loop over Object.entries(recordMap)
CrumbsWithId(h, recordMap, keys, id) ==
    IF keys = <<>> THEN None
    ELSE IF id = Head(keys) THEN Some(<<(<<id, Some(recordMap[id])>>)>>)
    ELSE With(getBreadCrumbsWithId(h, recordMap[Head(keys)], id),
              LAMBDA breadCrumbArray :
             IF breadCrumbArray # None
             THEN Some(<<(<<Head(keys),
                            IF id \in DOMAIN recordMap
                            THEN Some(recordMap[id]) ELSE None>>)>>
                       \o breadCrumbArray[1])
             ELSE CrumbsWithId(h, recordMap, Tail(keys), id))

getBreadCrumbsWithId(h, self, id) ==
    With(getRecordMap(h, self), LAMBDA recordMap :
        CrumbsWithId(h, recordMap, Ascending(DOMAIN recordMap), id))

RECURSIVE CrumbsWithAddress(_, _, _, _)
\* the loop over the segments of the address
CrumbsWithAddress(h, childR, segs, breadCrumbs) ==
    IF segs = <<>> THEN Some(breadCrumbs)
    ELSE With(SegmentType(Head(segs)), LAMBDA type :
         With(SegmentId(Head(segs)), LAMBDA id :
         With(IF IsSome(type) /\ IsSome(id)
              THEN getRecordOfType(h, childR, type[1], id[1])
              ELSE None, LAMBDA newChild :
             IF newChild = None THEN None
             ELSE CrumbsWithAddress(h, newChild[1], Tail(segs),
                      Append(breadCrumbs, <<id[1], Some(newChild[1])>>)))))

getBreadCrumbsWithAddress(h, self, addr) ==
    With(Split(Before(addr, "!"), "|"), LAMBDA recordsStringArray :
        IF Len(recordsStringArray) = 0 \/ DOMAIN h[self].records = {}
        THEN None
        ELSE CrumbsWithAddress(h, self, recordsStringArray, <<>>))

getBreadCrumbs(h, self, idOrAddress) ==
    IF idOrAddress.isNum
    THEN getBreadCrumbsWithId(h, self, idOrAddress.num)
    ELSE getBreadCrumbsWithAddress(h, self, idOrAddress.str)

(***************************************************************************)
(* Properties.  An array value is <<1, a, 0>> for the array object a, a    *)
(* node of the heap whose props map the indices from 0 on to the items.    *)
(* The defaultValues object of a type (RecordTypes.ts) is a node of the    *)
(* heap as well.                                                           *)
(***************************************************************************)
ArrRef(a) == <<1, a, 0>>

\* Array.isArray(v)
IsArray(v) == Len(v) = 3 /\ v[1] = 1

\* recordTypeDefinitions[type].defaultValues: the node that holds them;
\* only elements have default values here
DefaultsRef(type) == IF type = "element" THEN Some(0 - 1) ELSE None

\* this._json.props[property]
get(h, self, property) ==
    IF property \in DOMAIN h[self].props THEN h[self].props[property]
    ELSE None

\* this._json.props[property] = value
set(h, self, property, value) ==
    [h EXCEPT ![self].props = (property :> value) @@ h[self].props]

\* getDefault that returns the default value itself
getDefault_Shared(h, self, property) ==
    With(DefaultsRef(h[self].type), LAMBDA defaultValues :
        IF defaultValues = None
           \/ property \notin DOMAIN h[defaultValues[1]].props
        THEN [h |-> h, value |-> None]
        ELSE [h |-> h, value |-> h[defaultValues[1]].props[property]])

\* [h, value]: a deep clone of the default value, an array a new object
getDefault(h, self, property) ==
    With(DefaultsRef(h[self].type), LAMBDA defaultValues :
        IF defaultValues = None
           \/ property \notin DOMAIN h[defaultValues[1]].props
        THEN [h |-> h, value |-> None]
        ELSE With(h[defaultValues[1]].props[property], LAMBDA v :
             IF IsArray(v)
             THEN With(NewRef(h), LAMBDA a :
                      [h |-> (a :> h[v[2]]) @@ h, value |-> ArrRef(a)])
             ELSE [h |-> h, value |-> v]))

\* [h, value]
getValueOrDefault(h, self, property) ==
    IF get(h, self, property) # None
    THEN [h |-> h, value |-> get(h, self, property)]
    ELSE getDefault(h, self, property)

\* Number(index) for the piece after ">": 0 for the empty string, and NaN,
\* kept as -1, for what is no numeral
IndexNumber(piece) ==
    IF piece = <<>> THEN 0
    ELSE IF Len(piece) = 1 /\ ToNumber(piece[1]) # None
         THEN ToNumber(piece[1])[1]
         ELSE 0 - 1

\* propertyValue[Number(index)] = value
SetSlot(h, a, index, value) ==
    [h EXCEPT ![a].props = (IndexNumber(index) :> value) @@ h[a].props]

\* addr.match(/!.*/)?.[0]?.replace("!", "") split at ">", then the write.
\* [h, ret: the boolean returned]
updatePropertyAtAddress(h, self, addr, value) ==
    With(getDeepRecord(h, self, AddrRef(addr)), LAMBDA recordAtAddress :
    IF recordAtAddress = None THEN [h |-> h, ret |-> FALSE] ELSE
    With(After(addr, "!"), LAMBDA propertyAddr :
    IF propertyAddr = <<>> THEN [h |-> h, ret |-> FALSE] ELSE
    With(Split(propertyAddr, ">"), LAMBDA parts :
    IF Len(parts[1]) # 1 THEN [h |-> h, ret |-> FALSE] ELSE
    IF Len(parts) = 1
    THEN [h |-> set(h, recordAtAddress[1], parts[1][1], value), ret |-> TRUE]
    ELSE
    With(getValueOrDefault(h, recordAtAddress[1], parts[1][1]),
         LAMBDA propertyValue :
        IF IsArray(propertyValue.value)
        THEN [h |-> set(SetSlot(propertyValue.h, propertyValue.value[2],
                                parts[2], value),
                        recordAtAddress[1], parts[1][1], propertyValue.value),
              ret |-> TRUE]
        ELSE [h |-> h, ret |-> FALSE]))))

(***************************************************************************)
(* Reorder, move, copy and the clipboard.                                  *)
(***************************************************************************)
\* sortedRecords[i].order = allOrders[i], for every i below
\* sortedRecords.length; allOrders[i] is undefined past its end
RECURSIVE AssignOrders(_, _, _, _)
AssignOrders(h, sortedRecords, allOrders, i) ==
    IF i > Len(sortedRecords) THEN h
    ELSE AssignOrders(SetOrder(h, sortedRecords[i],
                               IF i <= Len(allOrders) THEN allOrders[i]
                               ELSE None),
                      sortedRecords, allOrders, i + 1)

\* [h, threw]
reorderRecords(h, self, type, ids, position) ==
    With(getSortedRecordsOfType(h, self, type), LAMBDA sorted :
    With(getNewOrders(sorted.h, sorted.records, Len(ids), Some(position)),
         LAMBDA allOrders :
        IF allOrders.threw THEN [h |-> sorted.h, threw |-> TRUE]
        ELSE [h |-> AssignOrders(sorted.h, sorted.records, allOrders.order, 1),
              threw |-> FALSE]))

\* the first loop of moveDeepRecordsToAddress; an entry of the array that is
\* undefined makes sourceRAndP.p throw.  [h, deleted: <<id, record>>s, threw]
RECURSIVE DeleteSources(_, _, _)
DeleteSources(h, sourceRAndPArray, deleted) ==
    IF sourceRAndPArray = <<>>
    THEN [h |-> h, deleted |-> deleted, threw |-> FALSE]
    ELSE With(Head(sourceRAndPArray), LAMBDA sourceRAndP :
         IF sourceRAndP = None
         THEN [h |-> h, deleted |-> deleted, threw |-> TRUE]
         ELSE
         With(deleteRecord(h, sourceRAndP[1].p, h[sourceRAndP[1].r].type,
                           sourceRAndP[1].id), LAMBDA d :
             DeleteSources(d.h, Tail(sourceRAndPArray),
                           IF d.ret # None THEN Append(deleted, d.ret)
                           ELSE deleted)))

\* the second loop of moveDeepRecordsToAddress.  [h, nid, threw]
RECURSIVE InsertDeleted(_, _, _, _, _, _)
InsertDeleted(h, nid, self, deleted, dest, destPosition) ==
    IF deleted = <<>> THEN [h |-> h, nid |-> nid, threw |-> FALSE]
    ELSE With(Head(deleted), LAMBDA idAndRecord :
         With(addRecord(h, nid, self, idAndRecord[2], destPosition,
                        Some(idAndRecord[1]), TRUE, Some(dest)), LAMBDA a :
             IF a.threw THEN [h |-> a.h, nid |-> a.nid, threw |-> TRUE]
             ELSE IF ~Acyclic(a.h)
             THEN [h |-> a.h, nid |-> a.nid, threw |-> FALSE]
             ELSE InsertDeleted(a.h, a.nid, self, Tail(deleted), dest,
                                destPosition)))

\* source: a sequence of idOrAddress; destPosition: optional.
\* [h, nid, ok: the boolean returned, threw]
moveDeepRecordsToAddress(h, nid, self, source, dest, destPosition) ==
    With([i \in DOMAIN source |-> getRecordAndParent(h, self, source[i])],
         LAMBDA sourceRAndPArray :
    IF getRecordAndParent(h, self, dest) = None
    THEN [h |-> h, nid |-> nid, ok |-> FALSE, threw |-> FALSE]
    ELSE
    With(DeleteSources(h, sourceRAndPArray, <<>>), LAMBDA del :
    IF del.threw THEN [h |-> del.h, nid |-> nid, ok |-> FALSE, threw |-> TRUE]
    ELSE
    With(InsertDeleted(del.h, nid, self, Reverse(del.deleted), dest,
                       destPosition), LAMBDA ins :
        [h |-> ins.h, nid |-> ins.nid, ok |-> ~ins.threw,
         threw |-> ins.threw])))

\* the loop of copyDeepRecordsToAddress; an entry that is undefined makes
\* rAndP.r throw.  [h, nid, threw]
RECURSIVE InsertSources(_, _, _, _, _, _)
InsertSources(h, nid, self, rAndPs, dest, destPosition) ==
    IF rAndPs = <<>> THEN [h |-> h, nid |-> nid, threw |-> FALSE]
    ELSE With(Head(rAndPs), LAMBDA rAndP :
         IF rAndP = None THEN [h |-> h, nid |-> nid, threw |-> TRUE]
         ELSE
         With(addRecord(h, nid, self, rAndP[1].r, destPosition, None,
                        FALSE, Some(dest)), LAMBDA a :
             IF a.threw THEN [h |-> a.h, nid |-> a.nid, threw |-> TRUE]
             ELSE IF ~Acyclic(a.h)
             THEN [h |-> a.h, nid |-> a.nid, threw |-> FALSE]
             ELSE InsertSources(a.h, a.nid, self, Tail(rAndPs), dest,
                                destPosition)))

copyDeepRecordsToAddress(h, nid, self, source, dest, destPosition) ==
    With([i \in DOMAIN source |-> getRecordAndParent(h, self, source[i])],
         LAMBDA sourceRAndPArray :
    IF getRecordAndParent(h, self, dest) = None
    THEN [h |-> h, nid |-> nid, ok |-> FALSE, threw |-> FALSE]
    ELSE
    With(InsertSources(h, nid, self, Reverse(sourceRAndPArray), dest,
                       destPosition), LAMBDA ins :
        [h |-> ins.h, nid |-> ins.nid, ok |-> ~ins.threw,
         threw |-> ins.threw]))

\* ClipboardData.nodes: <<id, record>> pairs holding the records themselves
RECURSIVE copySelectionToClipboard(_, _, _)
copySelectionToClipboard(h, self, selectedIdOrAddrs) ==
    IF selectedIdOrAddrs = <<>> THEN <<>>
    ELSE With(getRecordAndParent(h, self, Head(selectedIdOrAddrs)),
              LAMBDA rAndP :
             (IF rAndP # None THEN <<<<rAndP[1].id, rAndP[1].r>>>> ELSE <<>>)
             \o copySelectionToClipboard(h, self, Tail(selectedIdOrAddrs)))

RECURSIVE PasteNodes(_, _, _, _, _)
PasteNodes(h, nid, parentRecord, nodes, positionInPlace) ==
    IF nodes = <<>> THEN [h |-> h, nid |-> nid, threw |-> FALSE]
    ELSE With(addRecord(h, nid, parentRecord, Head(nodes)[2],
                        positionInPlace, None, FALSE, None), LAMBDA a :
             IF a.threw THEN [h |-> a.h, nid |-> a.nid, threw |-> TRUE]
             ELSE IF ~Acyclic(a.h)
             THEN [h |-> a.h, nid |-> a.nid, threw |-> FALSE]
             ELSE PasteNodes(a.h, a.nid, parentRecord, Tail(nodes),
                             positionInPlace))

\* [h, nid, threw]
pasteFromClipboard(h, nid, self, parentIdOrAddr, clipboardData, positionInPlace) ==
    With(getDeepRecord(h, self, parentIdOrAddr), LAMBDA parentRecord :
        IF parentRecord = None THEN [h |-> h, nid |-> nid, threw |-> FALSE]
        ELSE PasteNodes(h, nid, parentRecord[1], clipboardData,
                        positionInPlace))

(***************************************************************************)
(* The state: the heap, the id generator, the clipboard data the caller    *)
(* holds, and the log of the calls made so far with what they returned.    *)
(***************************************************************************)
Call(name) ==
    [name |-> name, self |-> Root, type |-> "", id |-> 0, newId |-> None,
     rec |-> None, src |-> <<>>, ids |-> <<>>, dest |-> None, pos |-> None,
     reqName |-> None, ret |-> None, ok |-> FALSE, threw |-> FALSE]

Last == log[Len(log)]

FirstFreeId == 6

\* project -> scene 1 (elements 3 and 4; element 3 holds element 5), scene 2.
\* The references are 5, 3, 4, 2, 1 for the ids 1, 2, 3, 4, 5.
InitHeap ==
    (Root :> Node("project", None, None, EmptyMap,
                  "scene" :> (1 :> 5 @@ 2 :> 3)))
    @@ (5 :> Node("scene", <<1>>, Int2Ord(1), EmptyMap,
                  "element" :> (3 :> 4 @@ 4 :> 2)))
    @@ (3 :> Node("scene", <<2>>, Int2Ord(2), "link" :> Num(3), EmptyMap))
    @@ (4 :> Node("element", <<1>>, Int2Ord(1), "link" :> Num(5),
                  "element" :> (5 :> 1)))
    @@ (2 :> Node("element", <<2>>, Int2Ord(2), EmptyMap, EmptyMap))
    @@ (1 :> Node("element", <<1>>, Int2Ord(1), "link" :> Num(4), EmptyMap))

\* the same tree as a legacy document: orders and names are missing
LegacyHeap ==
    [InitHeap EXCEPT ![5].order = None,
                     ![3].order = None, ![3].name = None,
                     ![4].order = Int2Ord(2),
                     ![2].order = None, ![2].name = None,
                     ![1].order = None, ![1].name = None]

Init ==
    /\ heap \in {InitHeap, LegacyHeap}
    /\ nextId = FirstFreeId
    /\ clipboard = <<>>
    /\ log = <<>>

(***************************************************************************)
(* The caller's inputs.                                                    *)
(***************************************************************************)
Positions == {None, Some(0), Some(1)}

\* ids 1..5 are in the initial tree, id 0 never is, and the ids from
\* FirstFreeId on are the generated ones
IdArgs == {IdRef(i) : i \in 0..(nextId - 1)}

AddrArgs == {AddrRef(<<"scene", ":", "2">>),
             AddrRef(<<"scene", ":", "1", "|", "element", ":", "4">>),
             AddrRef(<<"scene", ":", "1", "|", "element", ":", "0">>)}

Targets == IdArgs \cup AddrArgs

ParentArgs == {None, Some(IdRef(0)), Some(IdRef(1)),
               Some(AddrRef(<<"scene", ":", "2">>))}

NameArgs == {None, <<1>>, <<2>>}

\* records a caller constructs and passes to addRecord.  "group" and "bogus"
\* carry a name, an order and a sub-record stored under the id 5
TemplateArgs == {"scene", "rule", "group", "bogus"}

\* [h, ref]: the heap with the new record in it
NewRecord(h, template) ==
    LET child == NewRef(h)
        ref == child + 1
        sub == Node("element", <<2>>, Int2Ord(1), "link" :> Num(5), EmptyMap)
    IN  CASE template = "scene" ->
               [h |-> (child :> Node("scene", None, None, EmptyMap, EmptyMap))
                      @@ h,
                ref |-> child]
          [] template = "rule" ->
               [h |-> (child :> Node("rule", None, None, EmptyMap, EmptyMap))
                      @@ h,
                ref |-> child]
          [] template = "group" ->
               [h |-> (child :> sub)
                      @@ (ref :> Node("element", <<1>>, Int2Ord(9),
                                      "link" :> Num(5),
                                      "element" :> (5 :> child)))
                      @@ h,
                ref |-> ref]
          [] template = "bogus" ->
               [h |-> (child :> sub)
                      @@ (ref :> Node("bogus", <<1>>, Int2Ord(9), EmptyMap,
                                      "element" :> (5 :> child)))
                      @@ h,
                ref |-> ref]

\* sequences of one or two different elements of S
Lists(S) ==
    {<<x>> : x \in S} \cup {p \in {<<x, y>> : x, y \in S} : p[1] # p[2]}

(***************************************************************************)
(* The calls.  Each one is made on the factory of the root node unless it  *)
(* names another node.  A call that would make a node its own descendant   *)
(* is left out: no traversal of such a structure ends.                     *)
(***************************************************************************)
AddRecord ==
    \E template \in TemplateArgs, parent \in ParentArgs, position \in Positions :
        \E new \in {NewRecord(heap, template)} :
        \E a \in {addRecord(new.h, nextId, Root, new.ref, position, None,
                            FALSE, parent)} :
            /\ heap' = a.h
            /\ nextId' = a.nid
            /\ clipboard' = clipboard
            /\ log' = Append(log, [Call("addRecord") EXCEPT
                                      !.rec = Some(new.ref), !.dest = parent,
                                      !.pos = position,
                                      !.type = new.h[new.ref].type,
                                      !.reqName = new.h[new.ref].name,
                                      !.ret = a.ret, !.threw = a.threw])

\* on the factory of the root or of scene 1's node
AddBlankRecord ==
    \E self \in {Root, 5}, type \in {"scene", "element"}, position \in Positions :
        \E a \in {addBlankRecord(heap, nextId, self, type, position)} :
            /\ heap' = a.h
            /\ nextId' = a.nid
            /\ clipboard' = clipboard
            /\ log' = Append(log, [Call("addBlankRecord") EXCEPT
                                      !.self = self, !.type = type,
                                      !.pos = position,
                                      !.rec = Some(NewRef(heap)),
                                      !.ret = a.ret, !.threw = a.threw])

DuplicateDeepRecord ==
    \E target \in Targets :
        \E d \in {duplicateDeepRecord(heap, nextId, Root, target)} :
            /\ heap' = d.h
            /\ nextId' = d.nid
            /\ clipboard' = clipboard
            /\ log' = Append(log, [Call("duplicateDeepRecord") EXCEPT
                                      !.dest = Some(target),
                                      !.ret = d.ret, !.threw = d.threw])

\* on the factory of the root or of scene 1's node
DeleteRecord ==
    \E self \in {Root, 5}, type \in {"scene", "element"}, id \in 0..(nextId - 1) :
        \E d \in {deleteRecord(heap, self, type, id)} :
            /\ heap' = d.h
            /\ UNCHANGED <<nextId, clipboard>>
            /\ log' = Append(log, [Call("deleteRecord") EXCEPT
                                      !.self = self, !.type = type, !.id = id,
                                      !.ret = IF d.ret = None THEN None
                                              ELSE Some(d.ret[1]),
                                      !.rec = IF d.ret = None THEN None
                                              ELSE Some(d.ret[2])])

\* ids and addresses to read: of nodes at every depth, with a property
\* suffix, with a missing segment, without an id, and the empty string
ReadArgs ==
    Targets \cup
    {AddrRef(<<"scene", ":", "1", "|", "element", ":", "3", "|",
               "element", ":", "5">>),
     AddrRef(<<"scene", ":", "1", "|", "element", ":", "3", "!", "link">>),
     AddrRef(<<"scene", ":", "2", "|", "element", ":", "3">>),
     AddrRef(<<"scene", ":", "0", "|", "element", ":", "3">>),
     AddrRef(<<"scene">>),
     AddrRef(<<>>)}

\* ret: what getRecordAndParent returns; rec: what getDeepRecord returns
GetRecordAndParent ==
    \E target \in ReadArgs :
        /\ UNCHANGED <<heap, nextId, clipboard>>
        /\ log' = Append(log, [Call("getRecordAndParent") EXCEPT
                                  !.dest = Some(target),
                                  !.ret = getRecordAndParent(heap, Root, target),
                                  !.rec = getDeepRecord(heap, Root, target)])

\* the tree of InitHeap with property values that are arrays: element 4
\* has wh = [2, 3], element 3 has no wh, and the default values of elements
\* are wh = [1, 1] and opacity = 1
PropsHeap ==
    [InitHeap EXCEPT ![2].props = "wh" :> ArrRef(0 - 3)]
    @@ ((0 - 1) :> Node("defaultValues", None, None,
                        ("wh" :> ArrRef(0 - 2)) @@ ("opacity" :> Num(1)),
                        EmptyMap))
    @@ ((0 - 2) :> Node("array", None, None, (0 :> Num(1)) @@ (1 :> Num(1)),
                        EmptyMap))
    @@ ((0 - 3) :> Node("array", None, None, (0 :> Num(2)) @@ (1 :> Num(3)),
                        EmptyMap))

InitProps ==
    /\ heap = PropsHeap
    /\ nextId = FirstFreeId
    /\ clipboard = <<>>
    /\ log = <<>>

\* addresses of elements 3 and 4, of scene 2 and of no node, with the
\* suffixes !wh>i, !wh>, !wh>x, !link>i, !opacity>i, !wh, and none
PropertyAddrArgs ==
    {node \o suffix :
        node \in {<<"scene", ":", "1", "|", "element", ":", "3">>,
                  <<"scene", ":", "1", "|", "element", ":", "4">>,
                  <<"scene", ":", "2">>,
                  <<"scene", ":", "1", "|", "element", ":", "0">>},
        suffix \in {<<"!", "wh", ">", "0">>, <<"!", "wh", ">", "1">>,
                    <<"!", "wh", ">", "3">>, <<"!", "wh", ">">>,
                    <<"!", "wh", ">", "x">>, <<"!", "link", ">", "0">>,
                    <<"!", "opacity", ">", "0">>, <<"!", "wh">>, <<>>}}

\* the value written is kept in the record's ret field
UpdatePropertyAtAddress ==
    \E addr \in PropertyAddrArgs, value \in {Num(7), Num(8)} :
        \E u \in {updatePropertyAtAddress(heap, Root, addr, value)} :
            /\ heap' = u.h
            /\ UNCHANGED <<nextId, clipboard>>
            /\ log' = Append(log, [Call("updatePropertyAtAddress") EXCEPT
                                      !.dest = Some(AddrRef(addr)),
                                      !.ret = Some(value), !.ok = u.ret])

GetBreadCrumbs ==
    \E target \in Targets :
        /\ UNCHANGED <<heap, nextId, clipboard>>
        /\ log' = Append(log, [Call("getBreadCrumbs") EXCEPT
                                  !.dest = Some(target),
                                  !.ret = getBreadCrumbs(heap, Root, target)])

DeleteDeepRecord ==
    \E target \in Targets :
        \E d \in {deleteDeepRecord(heap, Root, target)} :
            /\ heap' = d.h
            /\ UNCHANGED <<nextId, clipboard>>
            /\ log' = Append(log, [Call("deleteDeepRecord") EXCEPT
                                      !.dest = Some(target),
                                      !.ret = IF d.ret = None THEN None
                                              ELSE Some(d.ret[1]),
                                      !.rec = IF d.ret = None THEN None
                                              ELSE Some(d.ret[2])])

ChangeDeepRecordName ==
    \E target \in Targets, newName \in NameArgs :
        \E c \in {changeDeepRecordName(heap, Root, target, newName)} :
            /\ heap' = c.h
            /\ UNCHANGED <<nextId, clipboard>>
            /\ log' = Append(log, [Call("changeDeepRecordName") EXCEPT
                                      !.dest = Some(target),
                                      !.reqName = newName, !.rec = c.ret])

\* on the factory of the root (its scenes) or of scene 1's node (its
\* elements), with ids of records of that type and a gap of the sorted list
ReorderRecords ==
    \E self \in {Root, 5} :
        \E type \in {IF self = Root THEN "scene" ELSE "element"} :
        \E m \in {getRecordMapOfType(heap, self, type)} :
            \E ids \in Lists(DOMAIN m), position \in 0..Cardinality(DOMAIN m) :
                \E r \in {reorderRecords(heap, self, type, ids, position)} :
                    /\ heap' = r.h
                    /\ UNCHANGED <<nextId, clipboard>>
                    /\ log' = Append(log, [Call("reorderRecords") EXCEPT
                                              !.self = self, !.type = type,
                                              !.ids = ids,
                                              !.pos = Some(position),
                                              !.threw = r.threw])

\* source lists: one source, or two of the sources 0 (unknown), 3 and 4
SourceArgs ==
    {<<x>> : x \in {IdRef(0), IdRef(2), IdRef(3), IdRef(4), IdRef(5),
                    AddrRef(<<"scene", ":", "1", "|", "element", ":", "4">>)}}
    \cup Lists({IdRef(0), IdRef(3), IdRef(4)})

DestArgs == {IdRef(0), IdRef(1), IdRef(5), AddrRef(<<"scene", ":", "2">>)}

MoveDeepRecordsToAddress ==
    \E source \in SourceArgs, dest \in DestArgs, destPosition \in Positions :
        \E m \in {moveDeepRecordsToAddress(heap, nextId, Root, source, dest,
                                           destPosition)} :
            /\ Acyclic(m.h)
            /\ heap' = m.h
            /\ nextId' = m.nid
            /\ clipboard' = clipboard
            /\ log' = Append(log, [Call("moveDeepRecordsToAddress") EXCEPT
                                      !.src = source, !.dest = Some(dest),
                                      !.pos = destPosition,
                                      !.ok = m.ok, !.threw = m.threw])

CopyDeepRecordsToAddress ==
    \E source \in SourceArgs, dest \in DestArgs, destPosition \in Positions :
        \E c \in {copyDeepRecordsToAddress(heap, nextId, Root, source, dest,
                                           destPosition)} :
            /\ Acyclic(c.h)
            /\ heap' = c.h
            /\ nextId' = c.nid
            /\ clipboard' = clipboard
            /\ log' = Append(log, [Call("copyDeepRecordsToAddress") EXCEPT
                                      !.src = source, !.dest = Some(dest),
                                      !.pos = destPosition,
                                      !.ok = c.ok, !.threw = c.threw])

\* on the factory of the root, of scene 1's node or of element 3's node
ChangeDeepRecordId ==
    \E self \in {Root, 5, 4}, id \in 0..(nextId - 1), newId \in {None, Some(20)} :
        \E c \in {changeDeepRecordId(heap, nextId, self, id, newId)} :
            /\ heap' = c.h
            /\ nextId' = c.nid
            /\ clipboard' = clipboard
            /\ log' = Append(log, [Call("changeDeepRecordId") EXCEPT
                                      !.self = self, !.id = id,
                                      !.newId = newId, !.ret = Some(c.ret)])

CycleAllSubRecordIds ==
    \E self \in {Root, 5} :
        \E c \in {cycleAllSubRecordIds(heap, nextId, self)} :
            /\ heap' = c.h
            /\ nextId' = c.nid
            /\ clipboard' = clipboard
            /\ log' = Append(log, [Call("cycleAllSubRecordIds") EXCEPT
                                      !.self = self])

CopySelectionToClipboard ==
    \E selected \in Lists({IdRef(0), IdRef(3), IdRef(4)}) :
        /\ clipboard' = copySelectionToClipboard(heap, Root, selected)
        /\ UNCHANGED <<heap, nextId>>
        /\ log' = Append(log, [Call("copySelectionToClipboard") EXCEPT
                                  !.src = selected])

PasteFromClipboard ==
    \E parent \in DestArgs, position \in Positions :
        /\ clipboard # <<>>
        /\ \E c \in {pasteFromClipboard(heap, nextId, Root, parent, clipboard,
                                         position)} :
            /\ Acyclic(c.h)
            /\ heap' = c.h
            /\ nextId' = c.nid
            /\ clipboard' = clipboard
            /\ log' = Append(log, [Call("pasteFromClipboard") EXCEPT
                                      !.dest = Some(parent), !.pos = position,
                                      !.threw = c.threw])

(***************************************************************************)
(* Specifications.                                                         *)
(***************************************************************************)
Next ==
    /\ Len(log) < MaxSteps
    /\ \/ AddRecord
       \/ AddBlankRecord
       \/ DuplicateDeepRecord
       \/ DeleteDeepRecord
       \/ ChangeDeepRecordName
       \/ ReorderRecords
       \/ MoveDeepRecordsToAddress
       \/ CopyDeepRecordsToAddress
       \/ ChangeDeepRecordId
       \/ CycleAllSubRecordIds
       \/ CopySelectionToClipboard
       \/ PasteFromClipboard

Spec == Init /\ [][Next]_vars

\* the calls that add records or renumber ids
NextIds ==
    /\ Len(log) < MaxSteps
    /\ \/ AddRecord
       \/ DuplicateDeepRecord
       \/ CycleAllSubRecordIds

SpecIds == Init /\ [][NextIds]_vars

\* the calls that rewrite an id
NextRefs ==
    /\ Len(log) < MaxSteps
    /\ \/ ChangeDeepRecordId
       \/ CycleAllSubRecordIds
       \/ AddBlankRecord

SpecRefs == Init /\ [][NextRefs]_vars

\* the calls that change the order of siblings
NextOrder ==
    /\ Len(log) < MaxSteps
    /\ \/ ReorderRecords
       \/ AddBlankRecord
       \/ DeleteDeepRecord

SpecOrder == Init /\ [][NextOrder]_vars

\* move and copy
NextMove ==
    /\ Len(log) < MaxSteps
    /\ \/ MoveDeepRecordsToAddress
       \/ CopyDeepRecordsToAddress

SpecMove == Init /\ [][NextMove]_vars

\* the calls that add records
NextAdd ==
    /\ Len(log) < MaxSteps
    /\ \/ AddRecord
       \/ AddBlankRecord

SpecAdd == Init /\ [][NextAdd]_vars

\* records added at the end of the root's or of scene 1's records, and
\* records deleted by id
NextAddDelete ==
    /\ Len(log) < MaxNameSteps
    /\ \/ /\ AddRecord
          /\ Last'.pos = None
          /\ Last'.dest \in {None, Some(IdRef(1))}
       \/ /\ DeleteDeepRecord
          /\ Last'.dest[1].isNum

SpecAddDelete == Init /\ [][NextAddDelete]_vars

\* the calls that give or change names
NextNames ==
    /\ Len(log) < MaxSteps
    /\ \/ AddRecord
       \/ AddBlankRecord
       \/ DuplicateDeepRecord
       \/ ChangeDeepRecordName
       \/ MoveDeepRecordsToAddress
       \/ CopyDeepRecordsToAddress
       \/ CopySelectionToClipboard
       \/ PasteFromClipboard

SpecNames == Init /\ [][NextNames]_vars

(***************************************************************************)
(* Properties.                                                             *)
(***************************************************************************)
\* a call has just returned
Called(name) == Len(log) > 0 /\ Last.name = name

\* no two record-map entries at any depth below the root have the same id
UniqueIds(h) ==
    \A e1, e2 \in DeepEntries(h, Root) : e1[3] = e2[3] => e1 = e2

\* C1: starting from a tree with unique ids, after any sequence of addRecord
\* (no id supplied, ids cycled), duplicateRecord and cycleAllSubRecordIds
\* calls no two nodes anywhere in the tree are stored under the same id
C1_IdsStayUnique == UniqueIds(heap)

\* C10: changeDeepRecordId(id, newId) on a factory whose subtree holds a node
\* under id relocates the node: getDeepRecord(newId) is that node afterwards,
\* no record map of the subtree has an entry under the old id, and the call
\* returns newId
C10_IdRelocated ==
    [][(/\ Called("changeDeepRecordId")'
        /\ Last'.id \in DOMAIN getDeepRecordMap(heap, Last'.self))
       => LET self == Last'.self
              id == Last'.id
              node == getDeepRecordMap(heap, self)[id]
              new == Last'.ret[1]
          IN  /\ getDeepRecord(heap', self, IdRef(new)) = Some(node)
              /\ new # id =>
                   \A e \in DeepEntries(heap', self) : e[3] # id
              /\ IsSome(Last'.newId) => new = Last'.newId[1]]_vars

\* what an idOrAddress resolves to from the root: <<[id, r, p]>> or <<>>
Resolve(h, idOrAddress) == getRecordAndParent(h, Root, idOrAddress)

Resolves(h, idOrAddress) == Resolve(h, idOrAddress) # None

\* the ids of all records below a node
DeepIds(h, r) == {e[3] : e \in DeepEntries(h, r)}

\* the node s.r may be stored under the node d
AllowedUnder(h, s, d) == isTypeChildOf(h[d].type, h[s.r].type)

\* C2: copyDeepRecordsToAddress with every source and the destination
\* resolvable inserts, for each source, a node under the destination whose id
\* differs from the source's, and leaves every source untouched: still stored
\* under its id in its parent, with the same name, order, props and
\* descendant ids; the inserted node shares no storage with the source.
\* (Stated for sources whose type the destination allows.)
C2_CopyLeavesSources ==
    [][(/\ Called("copyDeepRecordsToAddress")'
        /\ Resolves(heap, Last'.dest[1])
        /\ \A i \in DOMAIN Last'.src : Resolves(heap, Last'.src[i])
        /\ \A i \in DOMAIN Last'.src :
              AllowedUnder(heap, Resolve(heap, Last'.src[i])[1],
                           Resolve(heap, Last'.dest[1])[1].r))
       => \A i \in DOMAIN Last'.src :
            LET s == Resolve(heap, Last'.src[i])[1]
                d == Resolve(heap, Last'.dest[1])[1].r
            IN  /\ getRecordOfType(heap', s.p, heap[s.r].type, s.id)
                     = Some(s.r)
                /\ heap'[s.r].name = heap[s.r].name
                /\ heap'[s.r].order = heap[s.r].order
                /\ heap'[s.r].props = heap[s.r].props
                /\ DeepIds(heap', s.r) = DeepIds(heap, s.r)
                /\ \E e \in EntriesOf(heap', d) \ EntriesOf(heap, d) :
                      /\ e[3] # s.id
                      /\ heap'[e[4]].type = heap[s.r].type
                      /\ Below(heap', e[4]) \cap Below(heap', s.r) = {}]_vars

\* C3: moveDeepRecordsToAddress([s], dest, 0), s and dest resolvable and s's
\* type allowed under dest, removes s from its former parent's record map
\* and leaves it under the same id in dest's record map of its type, first in
\* dest's sorted ids of that type; s's props and descendant ids are unchanged
C3_MoveToFront ==
    [][(/\ Called("moveDeepRecordsToAddress")'
        /\ Len(Last'.src) = 1
        /\ Last'.pos = Some(0)
        /\ Resolves(heap, Last'.src[1])
        /\ Resolves(heap, Last'.dest[1])
        /\ AllowedUnder(heap, Resolve(heap, Last'.src[1])[1],
                        Resolve(heap, Last'.dest[1])[1].r))
       => LET s == Resolve(heap, Last'.src[1])[1]
              d == Resolve(heap, Last'.dest[1])[1].r
              type == heap[s.r].type
          IN  /\ s.p # d =>
                   s.id \notin DOMAIN getRecordMapOfType(heap', s.p, type)
              /\ getRecordOfType(heap', d, type, s.id) = Some(s.r)
              /\ getSortedRecordIdsOfType(heap', d, type).ids[1] = s.id
              /\ heap'[s.r].props = heap[s.r].props
              /\ DeepIds(heap', s.r) = DeepIds(heap, s.r)]_vars

\* the sorted ids with the ids of a list taken out and put back, in the
\* list's sequence, at a gap of the sorted list as it was
Reinserted(sortedIds, ids, position) ==
    LET keep(q) == SelectSeq(q, LAMBDA x : x \notin Range(ids))
    IN  keep(SubSeq(sortedIds, 1, position)) \o ids
        \o keep(SubSeq(sortedIds, position + 1, Len(sortedIds)))

\* C4: reorderRecords(type, ids, position) moves the siblings named in ids
\* to the gap position of the pre-call sorted list: afterwards the sorted ids
\* are the pre-call sorted ids with ids removed and re-inserted, in the given
\* sequence, at that gap ([1,2] with ids [2] and position 0 gives [2,1])
C4_ReorderMoves ==
    [][Called("reorderRecords")'
       => getSortedRecordIdsOfType(heap', Last'.self, Last'.type).ids
            = Reinserted(
                getSortedRecordIdsOfType(heap, Last'.self, Last'.type).ids,
                Last'.ids, Last'.pos[1])]_vars

\* C5: reorderRecords changes only the order values of the siblings named in
\* ids: every other sibling of the type keeps its pre-call order value,
\* every sibling has a defined order after the call, and the ids of the
\* record map are the same
C5_ReorderFrame ==
    [][Called("reorderRecords")'
       => LET before == getRecordMapOfType(heap, Last'.self, Last'.type)
              after == getRecordMapOfType(heap', Last'.self, Last'.type)
          IN  /\ DOMAIN after = DOMAIN before
              /\ \A id \in DOMAIN before :
                    /\ heap'[after[id]].order # None
                    /\ (id \notin Range(Last'.ids)
                        /\ heap[before[id]].order # None)
                       => heap'[after[id]].order = heap[before[id]].order]_vars

\* C6: in moveDeepRecordsToAddress and copyDeepRecordsToAddress, when the
\* destination resolves and some source does not, the call does not throw:
\* the unresolved source is skipped and every resolvable source (of a type
\* the destination allows) is still moved or copied to the destination
C6_UnresolvedSourceSkipped ==
    [][(/\ \/ Called("moveDeepRecordsToAddress")'
           \/ Called("copyDeepRecordsToAddress")'
        /\ Resolves(heap, Last'.dest[1])
        /\ \E i \in DOMAIN Last'.src : ~Resolves(heap, Last'.src[i]))
       => /\ ~Last'.threw
          /\ Last'.ok
          /\ \A i \in DOMAIN Last'.src :
               LET s == Resolve(heap, Last'.src[i])[1]
                   d == Resolve(heap, Last'.dest[1])[1].r
               IN  (/\ Resolves(heap, Last'.src[i])
                    /\ AllowedUnder(heap, s, d))
                   => IF Last'.name = "moveDeepRecordsToAddress"
                      THEN getRecordOfType(heap', d, heap[s.r].type, s.id)
                             = Some(s.r)
                      ELSE \E e \in EntriesOf(heap', d) \ EntriesOf(heap, d) :
                              heap'[e[4]].type = heap[s.r].type]_vars

\* the node an addRecord call adds under: the root, or what
\* parentIdOrAddress resolves to
AddParent(h, call) ==
    IF call.dest = None THEN Some(Root) ELSE getDeepRecord(h, Root, call.dest[1])

\* the type is unknown, or the parent does not resolve, or the parent's type
\* does not allow the type
AddRejected(h, call) ==
    \/ ~isRecordType(call.type)
    \/ AddParent(h, call) = None
    \/ ~isTypeChildOf(h[AddParent(h, call)[1]].type, call.type)

\* C7: addRecord of a record whose type is unknown or not allowed under the
\* parent's type, or with a parentIdOrAddress that does not resolve, returns
\* undefined without throwing and leaves the whole tree and the passed-in
\* record (its order, name and sub-records) as they were
C7_RejectedAddChangesNothing ==
    [][(Called("addRecord")' /\ AddRejected(heap, Last'))
       => /\ Last'.ret = None
          /\ ~Last'.threw
          /\ \E template \in TemplateArgs :
                LET new == NewRecord(heap, template)
                IN  /\ Last'.rec = Some(new.ref)
                    /\ new.h[new.ref].type = Last'.type
                    /\ heap' = new.h]_vars

\* an element with a name, an order and a sub-record was passed to addRecord
\* on the project, which allows no elements, and the call returned undefined
C7_Witness ==
    /\ Called("addRecord")
    /\ Last.type = "element"
    /\ Last.dest = None
    /\ Last.reqName = <<1>>
    /\ Last.ret = None

\* the last two calls of a log added two records, asking for the same name,
\* to the same record map of a type that has names
TwoAdds(l, h) ==
    /\ Len(l) >= 2
    /\ LET a == l[Len(l) - 1]
           b == l[Len(l)]
       IN  /\ a.name = "addRecord" /\ b.name = "addRecord"
           /\ a.ret # None /\ b.ret # None
           /\ a.type = b.type /\ defaultName(a.type) # None
           /\ a.reqName = b.reqName
           /\ \E p \in DOMAIN h :
                 /\ getRecordOfType(h, p, a.type, a.ret[1]) = a.rec
                 /\ getRecordOfType(h, p, b.type, b.ret[1]) = b.rec

C9_SiblingNamesUnique ==
    \A p \in Below(heap, Root) :
        \A t \in DOMAIN heap[p].records :
            defaultName(t) # None
            => \A id1, id2 \in DOMAIN heap[p].records[t] :
                  (/\ id1 # id2
                   /\ heap[heap[p].records[t][id1]].name # None)
                  => heap[heap[p].records[t][id1]].name
                       # heap[heap[p].records[t][id2]].name

\* the record-map entries below a node without their ids: parent, type, child
Shape(h, r) == {<<e[1], e[2], e[4]>> : e \in DeepEntries(h, r)}

\* C11: cycleAllSubRecordIds renumbers every descendant: none of the ids
\* that keyed a descendant before the call keys one after it, the number of
\* descendants and the shape of the tree (parents, children, types) are the
\* same, and the new ids are pairwise distinct
C11_CycleRenumbersAll ==
    [][Called("cycleAllSubRecordIds")'
       => LET self == Last'.self
          IN  /\ DeepIds(heap', self) \cap DeepIds(heap, self) = {}
              /\ Shape(heap', self) = Shape(heap, self)
              /\ \A r \in Below(heap, self) : heap'[r].type = heap[r].type
              /\ Cardinality(DeepEntries(heap', self))
                   = Cardinality(DeepEntries(heap, self))
              /\ \A e1, e2 \in DeepEntries(heap', self) :
                    e1[3] = e2[3] => e1 = e2]_vars

\* C12: changeDeepRecordId(id, newId) rewrites references: every property
\* of the caller's node and of every node below it whose value is id has the
\* value newId when the call returns, whether or not a node is stored under
\* id in the subtree; every other property is unchanged
C12_ReferencesRewritten ==
    [][Called("changeDeepRecordId")'
       => \A r \in Below(heap, Last'.self) :
            /\ DOMAIN heap'[r].props = DOMAIN heap[r].props
            /\ \A prop \in DOMAIN heap[r].props :
                  heap'[r].props[prop]
                    = IF heap[r].props[prop] = Num(Last'.id)
                      THEN Num(Last'.ret[1])
                      ELSE heap[r].props[prop]]_vars

\* changeDeepRecordId(4, 20) on element 3's factory: no node below element 3
\* is stored under 4, element 5's property held 4 and holds 20, and element
\* 3's own property still holds 5
C12_Witness ==
    /\ Called("changeDeepRecordId")
    /\ Last.self = 4
    /\ Last.id = 4
    /\ Last.newId = Some(20)
    /\ 4 \notin DeepIds(heap, 4)
    /\ heap[1].props["link"] = Num(20)
    /\ heap[4].props["link"] = Num(5)

\* the calls that add records, at the end of the siblings, while the ids
\* they generate are numerals that ToNumber reads
NextAddr ==
    /\ Len(log) < MaxSteps
    /\ nextId < MaxNumeral
    /\ \/ AddRecord /\ Last'.pos = None
       \/ AddBlankRecord /\ Last'.pos = None

SpecAddr == Init /\ [][NextAddr]_vars

\* the address of a node from the root: each ancestor's getAddress for the
\* next node on the way down, given the ancestor's own address as selfAddr
RECURSIVE AddressFromRoot(_, _)
AddressFromRoot(h, r) ==
    IF r = Root THEN <<>>
    ELSE LET e == CHOOSE e \in DeepEntries(h, Root) : e[4] = r
         IN  getAddress(h, e[1], e[3], None, AddressFromRoot(h, e[1]),
                        None, None)

\* the node the last call added under
AddedUnder(h, call) ==
    IF call.name = "addRecord" THEN AddParent(h, call)[1] ELSE call.self

\* the last call is an addRecord or addBlankRecord that added a record
Added(h, call) ==
    /\ call.name \in {"addRecord", "addBlankRecord"}
    /\ call.ret # None

\* C13: address round trip: for a node just added by addRecord under a
\* parent P, the address P's getAddress gives for the new id (with P's own
\* address from the root as selfAddr when P is not the root, with or without
\* the type, with or without a property or property and index suffix)
\* resolves through the root's getDeepRecord to that same node
C13_AddressRoundTrip ==
    [][Added(heap, Last')
       => LET P == AddedUnder(heap, Last')
              selfAddr == AddressFromRoot(heap', P)
          IN  \A type \in {None, Some(Last'.type)},
                 property \in {None, Some("link")},
                 index \in {None, Some(0)} :
                 getDeepRecord(heap', Root,
                     AddrRef(getAddress(heap', P, Last'.ret[1], type,
                                        selfAddr, property, index)))
                   = Last'.rec]_vars

\* an element was added under scene 1; scene 1's getAddress with the prefix
\* scene:1, the property link and the index 0 gives
\* scene:1|element:<id>!link>0, which resolves to the added node
C13_Witness ==
    /\ Called("addRecord")
    /\ Last.dest = Some(IdRef(1))
    /\ Last.ret # None
    /\ AddressFromRoot(heap, 5) = <<"scene", ":", "1">>
    /\ getAddress(heap, 5, Last.ret[1], None, <<"scene", ":", "1">>,
                  Some("link"), Some(0))
         = <<"scene", ":", "1", "|", "element", ":", ToString(Last.ret[1]),
             "!", "link", ">", "0">>
    /\ getDeepRecord(heap, Root,
           AddrRef(<<"scene", ":", "1", "|", "element", ":",
                     ToString(Last.ret[1]), "!", "link", ">", "0">>))
         = Last.rec

(***************************************************************************)
(* Documents with any mix of defined and missing order values, and the     *)
(* sorted reads.                                                           *)
(***************************************************************************)
OrderArgs == {None, Int2Ord(1), Int2Ord(2)}

\* the tree of InitHeap with the orders of scene 1, scene 2, element 3 and
\* element 4 as the document gives them
OrderHeaps ==
    {[InitHeap EXCEPT ![5].order = a, ![3].order = b,
                      ![4].order = c, ![2].order = d] :
        a \in OrderArgs, b \in OrderArgs, c \in OrderArgs, d \in OrderArgs}

InitOrders ==
    /\ heap \in OrderHeaps
    /\ nextId = FirstFreeId
    /\ clipboard = <<>>
    /\ log = <<>>

\* on the factory of the root or of scene 1's node
GetSortedRecordEntriesOfType ==
    \E self \in {Root, 5}, type \in {"scene", "element"} :
        \E s \in {getSortedRecordIdsOfType(heap, self, type)} :
            /\ heap' = s.h
            /\ nextId' = nextId
            /\ clipboard' = clipboard
            /\ log' = Append(log, [Call("getSortedRecordEntriesOfType") EXCEPT
                                      !.self = self, !.type = type,
                                      !.ids = s.ids])

NextSorted ==
    /\ Len(log) < MaxSteps
    /\ \/ GetSortedRecordEntriesOfType
       \/ AddBlankRecord

SpecSorted == InitOrders /\ [][NextSorted]_vars

\* C14: getSortedRecordEntriesOfType is idempotent: a second call right
\* after the first returns the same id sequence, and neither call changes an
\* order that was defined before it
C14_SortedReadIdempotent ==
    [][Called("getSortedRecordEntriesOfType")'
       => LET second == getSortedRecordIdsOfType(heap', Last'.self, Last'.type)
          IN  /\ second.ids = Last'.ids
              /\ \A r \in DOMAIN heap :
                    heap[r].order # None
                      => /\ heap'[r].order = heap[r].order
                         /\ second.h[r].order = heap[r].order]_vars

\* a sorted read of scene 1's elements when element 3 had no order and
\* element 4 had one: the read gave element 3 an order and returned both ids
C14_Witness ==
    /\ Len(log) = 1
    /\ Called("getSortedRecordEntriesOfType")
    /\ Last.self = 5
    /\ Last.type = "element"
    /\ Len(Last.ids) = 2
    /\ heap[4].order # None
    /\ \E h0 \in OrderHeaps :
          /\ h0[4].order = None
          /\ h0[2].order # None
          /\ getSortedRecordIdsOfType(h0, 5, "element").h = heap

\* every call of a log is an addBlankRecord on the same node, of the same
\* type, at the same given position, and added a record
SameGapAdds(l) ==
    /\ Len(l) >= 1
    /\ \A i \in 1..Len(l) :
          /\ l[i].name = "addBlankRecord"
          /\ l[i].ret # None
          /\ l[i].self = l[1].self
          /\ l[i].type = l[1].type
          /\ l[i].pos = l[1].pos
          /\ l[i].pos # None

\* the heap after the addBlankRecord calls of a log, made one after another
RECURSIVE ReplayAdds(_, _, _)
ReplayAdds(h, nid, l) ==
    IF l = <<>> THEN h
    ELSE LET a == addBlankRecord(h, nid, Head(l).self, Head(l).type,
                                 Head(l).pos)
         IN  ReplayAdds(a.h, a.nid, Tail(l))

\* the records of a type under a node all have an order, no two the same
DistinctOrders(h, self, type) ==
    LET m == getRecordMapOfType(h, self, type)
    IN  /\ \A a \in DOMAIN m : h[m[a]].order # None
        /\ \A a, b \in DOMAIN m : a # b => h[m[a]].order # h[m[b]].order

\* the addBlankRecord calls of the log were made on the document h0, whose
\* siblings had distinct orders, at a gap between two of them
DenseCase(h0) ==
    /\ SameGapAdds(log)
    /\ DistinctOrders(h0, log[1].self, log[1].type)
    /\ 0 < log[1].pos[1]
    /\ log[1].pos[1] < Cardinality(DOMAIN getRecordMapOfType(h0, log[1].self,
                                                            log[1].type))
    /\ ReplayAdds(h0, FirstFreeId, log) = heap

\* the orders of the added records lie strictly between the orders the two
\* siblings around the gap had in h0
DenseBetween(h0) ==
    LET self == log[1].self
        type == log[1].type
        p == log[1].pos[1]
        before == getSortedRecordsOfType(h0, self, type).records
        m == getRecordMapOfType(heap, self, type)
    IN  \A i \in 1..Len(log) :
           /\ OrdLess(h0[before[p]].order, heap[m[log[i].ret[1]]].order)
           /\ OrdLess(heap[m[log[i].ret[1]]].order, h0[before[p + 1]].order)

\* C15 as stated: N addRecord calls at the same interior position give N
\* records whose orders lie strictly between the orders the two siblings
\* around the gap had before the first call, and which are in the sorted
\* list in the sequence in which they were inserted
C15_DenseInInsertionSequence ==
    \A h0 \in OrderHeaps :
        DenseCase(h0)
          => /\ DenseBetween(h0)
             /\ LET after == getSortedRecordIdsOfType(heap, log[1].self,
                                                      log[1].type).ids
                IN  \A i \in 1..Len(log) :
                       after[log[1].pos[1] + i] = log[i].ret[1]

\* C15, amended: N addRecord calls at the same interior position give N
\* records whose orders lie strictly between the orders the two siblings
\* around the gap had before the first call, and which are in the sorted
\* list from the position on in the reverse of the sequence in which they
\* were inserted: the record added last is the one at the position
C15_DenseInReverseSequence ==
    \A h0 \in OrderHeaps :
        DenseCase(h0)
          => /\ DenseBetween(h0)
             /\ LET after == getSortedRecordIdsOfType(heap, log[1].self,
                                                      log[1].type).ids
                    N == Len(log)
                IN  \A i \in 1..N :
                       after[log[1].pos[1] + i] = log[N + 1 - i].ret[1]

\* two elements were added at position 1 of scene 1's elements 3 (order 1)
\* and 4 (order 2): they got the orders 3/2 and 5/4, and the sorted ids are
\* 3, the second one, the first one, 4
C15_Witness ==
    /\ Len(log) = 2
    /\ DenseCase(InitHeap)
    /\ log[1].self = 5
    /\ getSortedRecordIdsOfType(heap, 5, "element").ids
         = <<3, log[2].ret[1], log[1].ret[1], 4>>
    /\ heap[getRecordMapOfType(heap, 5, "element")[log[1].ret[1]]].order
         = <<3, 2>>
    /\ heap[getRecordMapOfType(heap, 5, "element")[log[2].ret[1]]].order
         = <<5, 4>>

\* C16: addRecord never renumbers existing siblings: for any position (0,
\* interior, end or none), every sibling of the added record's type that had
\* an order before the call is still stored under its id with that order
\* after it; and adding at position 0 to siblings with the orders 1 and 2
\* gives the new record the order 0
C16_AddKeepsSiblingOrders ==
    [][Added(heap, Last')
       => LET P == AddedUnder(heap, Last')
              type == Last'.type
              m == getRecordMapOfType(heap, P, type)
              m2 == getRecordMapOfType(heap', P, type)
          IN  /\ \A id \in DOMAIN m :
                    heap[m[id]].order # None
                      => /\ id \in DOMAIN m2
                         /\ m2[id] = m[id]
                         /\ heap'[m[id]].order = heap[m[id]].order
              /\ (/\ Last'.pos = Some(0)
                  /\ Cardinality(DOMAIN m) = 2
                  /\ {heap[m[id]].order : id \in DOMAIN m}
                       = {Int2Ord(1), Int2Ord(2)})
                   => heap'[Last'.rec[1]].order = Int2Ord(0)]_vars

\* an element that came with the order 9 was added at position 0 under
\* scene 1, whose elements 3 and 4 have the orders 1 and 2: it has the order
\* 0 and they have the orders 1 and 2
C16_Witness ==
    /\ Len(log) = 1
    /\ Called("addRecord")
    /\ Last.dest = Some(IdRef(1))
    /\ Last.pos = Some(0)
    /\ Last.ret # None
    /\ heap[Last.rec[1]].order = Int2Ord(0)
    /\ getRecordMapOfType(heap, 5, "element")[Last.ret[1]] = Last.rec[1]
    /\ heap[4].order = Int2Ord(1)
    /\ heap[2].order = Int2Ord(2)

\* the documents in which no two siblings have the same order
InitMixed ==
    /\ heap \in {h \in OrderHeaps :
                    /\ h[5].order # None => h[5].order # h[3].order
                    /\ h[4].order # None => h[4].order # h[2].order}
    /\ nextId = FirstFreeId
    /\ clipboard = <<>>
    /\ log = <<>>

\* duplicates and sorted reads on those documents
NextDup ==
    /\ Len(log) < MaxSteps
    /\ \/ DuplicateDeepRecord
       \/ GetSortedRecordEntriesOfType

SpecDup == InitMixed /\ [][NextDup]_vars

\* a node has what it had, but for an order it got where it had none
SameButBackfill(old, new) ==
    /\ new.type = old.type
    /\ new.name = old.name
    /\ new.props = old.props
    /\ new.records = old.records
    /\ old.order # None => new.order = old.order

\* C17: duplicateRecord(type, id) on an existing child adds a node with a
\* fresh id that is immediately after the original in the sorted ids of the
\* type (also when the original is last), shares no node with the original,
\* and leaves the original's id, name, order, props and descendants as they
\* were; for an id that is missing it returns undefined and changes nothing
C17_DuplicateAfterOriginal ==
    [][Called("duplicateDeepRecord")'
       => LET rAndP == Resolve(heap, Last'.dest[1])
          IN  IF rAndP = None
              THEN Last'.ret = None /\ heap' = heap
              ELSE LET p == rAndP[1].p
                       orig == rAndP[1].r
                       id == rAndP[1].id
                       type == heap[orig].type
                       ids == getSortedRecordIdsOfType(heap', p, type).ids
                       m == getRecordMapOfType(heap', p, type)
                   IN  /\ Last'.ret # None
                       /\ Last'.ret[1] \notin DeepIds(heap, Root)
                       /\ Last'.ret[1] \in DOMAIN m
                       /\ \E i \in 1..(Len(ids) - 1) :
                             ids[i] = id /\ ids[i + 1] = Last'.ret[1]
                       /\ Below(heap', m[Last'.ret[1]]) \cap DOMAIN heap = {}
                       /\ m[id] = orig
                       /\ SameButBackfill(heap[orig], heap'[orig])
                       /\ \A r \in Below(heap, orig) \ {orig} :
                             heap'[r] = heap[r]]_vars

\* the calls that delete records, and blank records to delete
NextDelete ==
    /\ Len(log) < MaxSteps
    /\ \/ DeleteRecord
       \/ DeleteDeepRecord
       \/ AddBlankRecord

SpecDelete == Init /\ [][NextDelete]_vars

\* what a deleteRecord or deleteDeepRecord call is to delete: <<[id, r, p]>>,
\* or <<>> when its target does not resolve
DeleteTarget(h, call) ==
    IF call.name = "deleteRecord"
    THEN IF getRecordOfType(h, call.self, call.type, call.id) = None THEN None
         ELSE Some([id |-> call.id,
                    r |-> getRecordOfType(h, call.self, call.type, call.id)[1],
                    p |-> call.self])
    ELSE Resolve(h, call.dest[1])

\* C18: deleteRecord and deleteDeepRecord on a target that resolves remove
\* exactly that one entry from the record map it is in and return the id and
\* the record; every other entry and every node (orders, names, property
\* values, also those equal to the deleted id) is as it was; on a target that
\* does not resolve they return undefined and the tree is as it was
C18_DeleteRemovesOneEntry ==
    [][(Called("deleteRecord")' \/ Called("deleteDeepRecord")')
       => LET rAndP == DeleteTarget(heap, Last')
          IN  IF rAndP = None
              THEN Last'.ret = None /\ heap' = heap
              ELSE LET p == rAndP[1].p
                       type == heap[rAndP[1].r].type
                   IN  /\ Last'.ret = Some(rAndP[1].id)
                       /\ Last'.rec = Some(rAndP[1].r)
                       /\ DOMAIN heap' = DOMAIN heap
                       /\ \A x \in DOMAIN heap \ {p} : heap'[x] = heap[x]
                       /\ heap'[p]
                            = [heap[p] EXCEPT
                                 !.records[type] =
                                    [i \in DOMAIN heap[p].records[type]
                                             \ {rAndP[1].id}
                                       |-> heap[p].records[type][i]]]]_vars

\* deleteDeepRecord(4) returned element 4: no record is stored under 4,
\* elements 3 and 5 are where they were, and element 5's property still
\* holds 4
C18_Witness ==
    /\ Called("deleteDeepRecord")
    /\ Last.dest = Some(IdRef(4))
    /\ Last.ret = Some(4)
    /\ Last.rec = Some(2)
    /\ 4 \notin DeepIds(heap, Root)
    /\ {3, 5} \subseteq DeepIds(heap, Root)
    /\ heap[1].props["link"] = Num(4)

\* a move of two or more sources that all resolve, to a destination that
\* resolves, allows their types and is not at or below any of them
MoveOfSeveral(h, call) ==
    /\ call.name = "moveDeepRecordsToAddress"
    /\ Len(call.src) >= 2
    /\ Resolves(h, call.dest[1])
    /\ \A i \in 1..Len(call.src) :
          /\ Resolves(h, call.src[i])
          /\ AllowedUnder(h, Resolve(h, call.src[i])[1],
                          Resolve(h, call.dest[1])[1].r)
          /\ h[Resolve(h, call.src[i])[1].r].type
               = h[Resolve(h, call.src[1])[1].r].type
          /\ Resolve(h, call.dest[1])[1].r
               \notin Below(h, Resolve(h, call.src[i])[1].r)

\* the ids of the sources of a call, in the caller's sequence
SourceIds(h, call) ==
    [i \in 1..Len(call.src) |-> Resolve(h, call.src[i])[1].id]

\* the sequence part is in the sequence whole, its elements next to each other
ConsecutiveIn(part, whole) ==
    \E i \in 0..(Len(whole) - Len(part)) :
        \A k \in 1..Len(part) : whole[i + k] = part[k]

\* C19: moveDeepRecordsToAddress(sources, dest, destPosition) keeps the
\* caller's left-to-right sequence for every destPosition, also for none
\* (append at the end): afterwards the sorted ids of the destination have the
\* ids of the sources next to each other in the caller's sequence
C19_MoveKeepsSequence ==
    [][MoveOfSeveral(heap, Last')
       => LET d == Resolve(heap, Last'.dest[1])[1].r
              type == heap[Resolve(heap, Last'.src[1])[1].r].type
          IN  ConsecutiveIn(SourceIds(heap, Last'),
                            getSortedRecordIdsOfType(heap', d, type).ids)]_vars

\* the largest of the orders the records of a sequence have, or 0
RECURSIVE MaxDefinedOrder(_, _)
MaxDefinedOrder(h, refs) ==
    IF refs = <<>> THEN Int2Ord(0)
    ELSE LET rest == MaxDefinedOrder(h, Tail(refs))
         IN  IF h[Head(refs)].order # None /\ OrdLess(rest, h[Head(refs)].order)
             THEN h[Head(refs)].order ELSE rest

\* C20: the order backfill of getSortedRecordEntriesOfType uses the maximum
\* of the orders of all the siblings: after the call the siblings that had no
\* order have max+1, max+2, ... in the iteration order of the record map,
\* each greater than every order that was there before the call, and none
\* equal to the order of another sibling, wherever the first sibling without
\* an order is in the iteration order
C20_BackfillAboveAll ==
    [][Called("getSortedRecordEntriesOfType")'
       => LET refs == Values(getRecordMapOfType(heap, Last'.self, Last'.type))
              max == MaxDefinedOrder(heap, refs)
              missing == SelectSeq(refs, LAMBDA r : heap[r].order = None)
          IN  /\ \A k \in 1..Len(missing) :
                    heap'[missing[k]].order = OrdAdd(max, Int2Ord(k))
              /\ \A k \in 1..Len(missing), i \in 1..Len(refs) :
                    /\ heap[refs[i]].order # None
                         => OrdLess(heap[refs[i]].order, heap'[missing[k]].order)
                    /\ refs[i] # missing[k]
                         => heap'[refs[i]].order # heap'[missing[k]].order]_vars

(***************************************************************************)
(* The order allocator on its own: one call of getNewOrders on the sorted  *)
(* records of a type under a node, as its callers make it.                 *)
(***************************************************************************)
MaxCount == 3

\* the root's scenes, scene 1's elements, scene 2's elements (there are none)
SiblingLists == {<<Root, "scene">>, <<5, "element">>, <<3, "element">>}

GapArgs == {None, Some(0), Some(1), Some(2)}

\* the call's count is kept in the record's id field, the orders in ret
GetNewOrders ==
    /\ log = <<>>
    /\ \E list \in SiblingLists, count \in 1..MaxCount, position \in GapArgs :
        \E sorted \in {getSortedRecordsOfType(heap, list[1], list[2])} :
        \E o \in {getNewOrders(sorted.h, sorted.records, count, position)} :
            /\ heap' = sorted.h
            /\ nextId' = nextId
            /\ clipboard' = clipboard
            /\ log' = Append(log, [Call("getNewOrders") EXCEPT
                                      !.self = list[1], !.type = list[2],
                                      !.id = count, !.pos = position,
                                      !.ret = Some(o.order),
                                      !.threw = o.threw])

NextAllocate == GetNewOrders

SpecAllocate == InitOrders /\ [][NextAllocate]_vars

\* C21: getNewOrders, given n sorted siblings, a count k and a gap, returns
\* exactly k values: 1..k when n = 0; min-1, min-2, ... at gap 0; max+1,
\* max+2, ... at gap n or none; and prev + (next - prev) * i / (k + 1), that
\* is (prev * (k + 1 - i) + next * i) / (k + 1), at a gap between prev and
\* next; so for siblings with distinct orders the values are distinct from
\* every order there is and from each other
C21_AllocatedOrders ==
    [][(/\ Called("getNewOrders")'
        /\ Last'.pos \in {None} \cup
             {Some(p) : p \in 0..Len(getSortedRecordsOfType(
                                       heap, Last'.self, Last'.type).records)})
       => LET sorted == getSortedRecordsOfType(heap, Last'.self, Last'.type)
              ord == [j \in 1..Len(sorted.records)
                        |-> sorted.h[sorted.records[j]].order]
              n == Len(ord)
              k == Last'.id
              new == Last'.ret[1]
              p == Last'.pos[1]
          IN  /\ ~Last'.threw
              /\ Len(new) = k
              /\ \A i \in 1..k :
                    new[i] =
                      IF n = 0 THEN Int2Ord(i)
                      ELSE IF Last'.pos = Some(0)
                      THEN OrdSub(ord[1], Int2Ord(i))
                      ELSE IF Last'.pos = None \/ Last'.pos = Some(n)
                      THEN OrdAdd(ord[n], Int2Ord(i))
                      ELSE OrdAdd(OrdScale(ord[p], k + 1, k + 1 - i),
                                  OrdScale(ord[p + 1], k + 1, i))
              /\ (\A a, b \in 1..n : a # b => ord[a] # ord[b])
                   => /\ \A i, j \in 1..k : i # j => new[i] # new[j]
                      /\ \A i \in 1..k, a \in 1..n : new[i] # ord[a]]_vars

\* two orders for the gap between scene 1's elements of orders 1 and 2:
\* 4/3 and 5/3
C21_Witness ==
    /\ Called("getNewOrders")
    /\ Last.self = 5
    /\ Last.id = 2
    /\ Last.pos = Some(1)
    /\ heap[4].order = Int2Ord(1)
    /\ heap[2].order = Int2Ord(2)
    /\ Last.ret = Some(<<(<<4, 3>>), (<<5, 3>>)>>)

\* C22: addRecord with position p, for every p in 0..n where n is the number
\* of siblings of the record's type (their orders distinct), puts the new
\* record at index p of the parent's sorted ids of the type, and with no
\* position puts it last
C22_AddAtPosition ==
    [][(/\ Added(heap, Last')
        /\ DistinctOrders(heap, AddedUnder(heap, Last'), Last'.type)
        /\ Last'.pos # None
             => Last'.pos[1] <= Cardinality(DOMAIN getRecordMapOfType(
                                    heap, AddedUnder(heap, Last'), Last'.type)))
       => LET P == AddedUnder(heap, Last')
              n == Cardinality(DOMAIN getRecordMapOfType(heap, P, Last'.type))
              after == getSortedRecordIdsOfType(heap', P, Last'.type).ids
          IN  /\ Len(after) = n + 1
              /\ after[IF Last'.pos = None THEN n + 1 ELSE Last'.pos[1] + 1]
                   = Last'.ret[1]]_vars

\* a second record was added at position 1 of scene 1's elements 3 and 4 and
\* of the element added first at position 0: it is the second of the four
C22_Witness ==
    /\ Len(log) = 2
    /\ Added(heap, Last)
    /\ Added(heap, log[1])
    /\ log[1].pos = Some(0)
    /\ Last.pos = Some(1)
    /\ getSortedRecordIdsOfType(heap, 5, "element").ids
         = <<log[1].ret[1], Last.ret[1], 3, 4>>

\* reads by id and by address, and blank records to read
NextRead ==
    /\ Len(log) < MaxSteps
    /\ \/ GetBreadCrumbs
       \/ GetRecordAndParent
       \/ AddBlankRecord

SpecRead == Init /\ [][NextRead]_vars

\* the entries from the top-level ancestor of a node down to the node:
\* <<id, the node stored under the id>> per level
RECURSIVE PathTo(_, _)
PathTo(h, r) ==
    IF r = Root THEN <<>>
    ELSE LET e == CHOOSE e \in DeepEntries(h, Root) : e[4] = r
         IN  Append(PathTo(h, e[1]), <<e[3], Some(r)>>)

\* C23: getBreadCrumbs agrees between its two input forms: in a tree with
\* unique ids, getBreadCrumbs(id) and getBreadCrumbs(address of the node)
\* return the same list, one {id, record} per level from the top-level
\* ancestor down to the node, each record the node stored under the id; for
\* an id or address that does not resolve they return undefined
C23_BreadCrumbsAgree ==
    [][(Called("getBreadCrumbs")' /\ UniqueIds(heap))
       => LET rAndP == Resolve(heap, Last'.dest[1])
          IN  IF rAndP = None THEN Last'.ret = None
              ELSE /\ Last'.ret = Some(PathTo(heap, rAndP[1].r))
                   /\ getBreadCrumbs(heap, Root, IdRef(rAndP[1].id))
                        = getBreadCrumbs(heap, Root,
                              AddrRef(AddressFromRoot(heap, rAndP[1].r)))]_vars

\* the record-map entries an id or an address names: the entries stored
\* under the id, or the entry whose address from the root is the address
\* without its property suffix
Denoted(h, idOrAddress) ==
    {e \in DeepEntries(h, Root) :
        IF idOrAddress.isNum THEN e[3] = idOrAddress.num
        ELSE AddressFromRoot(h, e[4]) = Before(idOrAddress.str, "!")}

\* C24: resolution by id and by address agree: in a tree with unique ids,
\* getRecordAndParent of a node's id and of its address return the same id,
\* record and parent (the node whose record map holds the entry), and
\* getDeepRecord returns the node for both; an address with a missing
\* segment and an id that is not in the tree resolve to undefined
C24_ResolutionAgrees ==
    [][(Called("getRecordAndParent")' /\ UniqueIds(heap))
       => /\ \A e \in Denoted(heap, Last'.dest[1]) :
                /\ Last'.ret = Some([id |-> e[3], r |-> e[4], p |-> e[1]])
                /\ Last'.rec = Some(e[4])
                /\ getRecordAndParent(heap, Root, IdRef(e[3])) = Last'.ret
                /\ getRecordAndParent(heap, Root,
                       AddrRef(AddressFromRoot(heap, e[4]))) = Last'.ret
                /\ getDeepRecord(heap, Root, IdRef(e[3])) = Last'.rec
                /\ getDeepRecord(heap, Root,
                       AddrRef(AddressFromRoot(heap, e[4]))) = Last'.rec
          /\ Denoted(heap, Last'.dest[1]) = {}
               => Last'.ret = None /\ Last'.rec = None]_vars

\* scene:1|element:3|element:5 resolved to element 5 in element 3, and so
\* does the id 5
C24_Witness ==
    /\ Called("getRecordAndParent")
    /\ Last.dest = Some(AddrRef(<<"scene", ":", "1", "|", "element", ":", "3",
                                  "|", "element", ":", "5">>))
    /\ Last.ret = Some([id |-> 5, r |-> 1, p |-> 4])
    /\ Last.rec = Some(1)
    /\ getRecordAndParent(heap, Root, IdRef(5)) = Last.ret

NextProps ==
    /\ Len(log) < MaxSteps
    /\ UpdatePropertyAtAddress

SpecProps == InitProps /\ [][NextProps]_vars

\* the items of an array value: index -> item
Items(h, v) == h[v[2]].props

\* the value a property of a node has: the stored one, else the default of
\* the node's type, else undefined
CurrentValue(h, n, property) ==
    IF property \in DOMAIN h[n].props THEN h[n].props[property]
    ELSE IF DefaultsRef(h[n].type) # None
            /\ property \in DOMAIN h[DefaultsRef(h[n].type)[1]].props
         THEN h[DefaultsRef(h[n].type)[1]].props[property]
         ELSE None

\* the default values of the types and the arrays in them
SharedDefaults(h) ==
    [r \in {0 - 1, 0 - 2} |-> h[r]]

\* C25: updatePropertyAtAddress(addr, value) with an index suffix !prop>i
\* returns true and sets only slot i of the property on the addressed node
\* when the property's current value (stored, else default) is an array;
\* when it is not an array, when the address does not resolve, or when the
\* address has no property suffix, it returns false and the tree is as it
\* was; a write through an unset property whose default is an array never
\* changes the type's shared default value
C25_IndexedWrite ==
    [][Called("updatePropertyAtAddress")'
       => LET addr == Last'.dest[1].str
              value == Last'.ret[1]
              nodes == {e[4] : e \in Denoted(heap, AddrRef(addr))}
              suffix == After(addr, "!")
              prop == Before(suffix, ">")[1]
              index == After(suffix, ">")
              i == ToNumber(index[1])[1]
          IN  /\ SharedDefaults(heap') = SharedDefaults(heap)
              /\ (nodes = {} \/ "!" \notin Range(addr))
                   => ~Last'.ok /\ heap' = heap
              /\ (/\ nodes # {}
                  /\ ">" \in Range(suffix)
                  /\ Len(index) = 1
                  /\ ToNumber(index[1]) # None)
                   => \A n \in nodes :
                        IF IsArray(CurrentValue(heap, n, prop))
                        THEN /\ Last'.ok
                             /\ IsArray(heap'[n].props[prop])
                             /\ Items(heap', heap'[n].props[prop])
                                  = (i :> value)
                                    @@ Items(heap, CurrentValue(heap, n, prop))
                             /\ \A q \in DOMAIN heap[n].props \ {prop} :
                                   heap'[n].props[q] = heap[n].props[q]
                             /\ DOMAIN heap'[n].props
                                  = DOMAIN heap[n].props \cup {prop}
                             /\ [heap'[n] EXCEPT !.props = <<>>]
                                  = [heap[n] EXCEPT !.props = <<>>]
                             /\ \A x \in DOMAIN heap \ {n} :
                                   \/ heap'[x] = heap[x]
                                   \/ /\ prop \in DOMAIN heap[n].props
                                      /\ x = heap[n].props[prop][2]
                        ELSE ~Last'.ok /\ heap' = heap]_vars

\* scene:1|element:3!wh>1 was written with 7: element 3 had no wh, now has
\* wh = [1, 7], and the default is still [1, 1]
C25_Witness ==
    /\ Len(log) = 1
    /\ Called("updatePropertyAtAddress")
    /\ Last.dest = Some(AddrRef(<<"scene", ":", "1", "|", "element", ":", "3",
                                  "!", "wh", ">", "1">>))
    /\ Last.ret = Some(Num(7))
    /\ Last.ok
    /\ IsArray(heap[4].props["wh"])
    /\ Items(heap, heap[4].props["wh"]) = (0 :> Num(1)) @@ (1 :> Num(7))
    /\ Items(heap, ArrRef(0 - 2)) = (0 :> Num(1)) @@ (1 :> Num(1))

\* C26: moveDeepRecordsToAddress conserves nodes: whenever it returns true
\* the ids in the whole tree after the call are the ids before it (no moved
\* record and none of its descendants is lost), also when the destination
\* does not allow the type of a moved record and when the destination is
\* inside the subtree of a moved source; whenever it returns false the tree
\* is as it was
C26_MoveConservesNodes ==
    [][Called("moveDeepRecordsToAddress")'
       => /\ Last'.ok => DeepIds(heap', Root) = DeepIds(heap, Root)
          /\ (~Last'.ok /\ ~Last'.threw) => heap' = heap]_vars

\* the document whose siblings have distinct orders
InitDistinct ==
    /\ heap = InitHeap
    /\ nextId = FirstFreeId
    /\ clipboard = <<>>
    /\ log = <<>>

\* the calls that give, change or read orders
NextTotal ==
    /\ Len(log) < MaxSteps
    /\ \/ AddRecord
       \/ DuplicateDeepRecord
       \/ DeleteDeepRecord
       \/ ReorderRecords
       \/ MoveDeepRecordsToAddress
       \/ GetSortedRecordEntriesOfType

SpecTotal == InitDistinct /\ [][NextTotal]_vars

\* C27: sibling order stays a strict total order: starting from a tree in
\* which the siblings of a type have distinct orders, after any sequence of
\* addRecord, duplicateRecord, deleteRecord, reorderRecords,
\* moveDeepRecordsToAddress and getSortedRecordEntriesOfType calls, once the
\* sorted entries of a record map are read every record in it has an order
\* and no two have the same
C27_StrictTotalOrder ==
    \A p \in Below(heap, Root) : \A type \in DOMAIN heap[p].records :
        DistinctOrders(getSortedRecordEntriesOfType(heap, p, type).h, p, type)

\* no node is held by two record-map entries of the tree
NoAliasing(h) ==
    \A e1, e2 \in DeepEntries(h, Root) : e1[4] = e2[4] => e1 = e2

\* the ids of a clipboard payload: those of its nodes and of all below them
CapturedIds(h, nodes) ==
    {nodes[i][1] : i \in DOMAIN nodes}
        \cup UNION {DeepIds(h, nodes[i][2]) : i \in DOMAIN nodes}

\* the nodes a clipboard payload was captured from, with all below them
CapturedNodes(h, nodes) ==
    UNION {Below(h, nodes[i][2]) : i \in DOMAIN nodes}

\* C28: the store stays a tree with no aliasing: after any sequence of
\* addRecord, duplicateRecord, copyDeepRecordsToAddress,
\* copySelectionToClipboard followed by pasteFromClipboard (the same
\* clipboard data pasted more than once included) and
\* moveDeepRecordsToAddress, no record node is held by two different
\* record-map entries; the entries a paste makes have ids different from
\* every id of the clipboard payload, and the nodes the clipboard was
\* captured from are unchanged by the paste.
C28_NoAliasing ==
    [][/\ NoAliasing(heap')
       /\ Called("pasteFromClipboard")'
          => /\ \A e \in DeepEntries(heap', Root) \ DeepEntries(heap, Root) :
                    e[3] \notin CapturedIds(heap, clipboard)
             /\ \A r \in CapturedNodes(heap, clipboard) :
                    heap'[r] = heap[r]]_vars

====
